---- MODULE Spec2Model ----
(***************************************************************************)
(* A model of the ribbon-graph ("fatgraph") combinatorics of src/rg.py and *)
(* of the homology machinery of src/homology.py.                           *)
(*                                                                         *)
(* Conventions.  Python lists are TLA+ sequences, so positions are 1-based *)
(* here where the source is 0-based: At(s, k) reads position k of the      *)
(* source.  Edge colours keep the source's values 0..E-1.  Vertex indices  *)
(* keep the source's values 0..V-1 and are shifted only when a sequence is *)
(* subscripted.  An attribute that may be None holds a sequence: None is   *)
(* the empty sequence and a value x is Some(x), read back with Val.        *)
(*                                                                         *)
(* The module holds several state machines that share no state; each has   *)
(* its own specification (SpecVertex, SpecGraph, ...) whose initial        *)
(* condition parks the variables of the other machines.                    *)
(***************************************************************************)
EXTENDS Integers, Sequences, FiniteSets, TLC

VARIABLES
    vtx,        \* Vertex machine: the content of the Vertex object
    vorig,      \* Vertex machine: its content when it was constructed
    vprev,      \* Vertex machine: its content before the last make_canonical()
    vcalls,     \* Vertex machine: how many make_canonical() calls were made
    g,          \* Graph machine: the Graph object under test (a record of its fields)
    child,      \* Graph machine: the Graph returned by g.contract(cedge), or None
    cedge,      \* Graph machine: the edge that was contracted, or None
    gerr,       \* Graph machine: the exception the last call raised, or None
    isoG,       \* Isomorphism machine: the graph G
    isoH,       \* Isomorphism machine: the graph H
    isoK,       \* Isomorphism machine: the graph K
    isoPc,      \* Isomorphism machine: how many calls of the script were made
    isoFound,   \* Isomorphism machine: what each isomorphisms_to call gave, in call order
    isoEq,      \* Isomorphism machine: the value of G == H, or None
    gvValences, \* Enumerator: GivenValenceGraphsIterator._vertex_valences
    gvLess,     \* Enumerator: which "<" compares two Vertex objects, "cmp" or "list"
    gvSeq,      \* Enumerator: _edge_seq_iterator.seq, permuted in place
    gvFinished, \* Enumerator: _edge_seq_iterator.enumeration_finished
    gvGraphs,   \* Enumerator: GivenValenceGraphsIterator.graphs, the graphs returned so far
    gvRaised,   \* Enumerator: whether the last next() raised StopIteration
    cxDims,     \* Homology: the dimensions of ChainComplex.module[0..length-1]
    cxOptions,  \* Homology: runtime.options, "none", "checkpoint" or "restart"
    cxStore0,   \* Homology: the checkpoint file of each D[i] when the run started
    cxStore,    \* Homology: the checkpoint file of each D[i], None or the saved list
    cxD,        \* Homology: the DifferentialComplex compute_boundary_operators gave, or None
    cxOracle,   \* Homology: what A.rank() answered for each D[i], None where it was not called
    cxCalls,    \* Homology: the indices i for which A.rank() was called, in call order
    cxLoads,    \* Homology: the indices i whose checkpoint file was read by load()
    cxSaves,    \* Homology: the indices i whose checkpoint file was written by save()
    cxNull,     \* Homology: for 1 <= i < L, whether the product of D[i-1] and D[i] is null
    cxEarlier,  \* Homology: the earlier run that was stopped before this one, or None
    cxRanks,    \* Homology: the list `ranks` at the return of compute_homology_ranks
    cxH,        \* Homology: the list compute_homology_ranks returned, or None
    cnG,        \* is_canonical machine: the Graph object under test
    cnLess,     \* is_canonical machine: which "<" compares two Vertex objects, "cmp" or "list"
    cnResult,   \* is_canonical machine: what cnG.is_canonical() returned, or None
    ctValences, \* Constructor machine: the argument vertex_valences of Graph(...) (src/src/rg.py)
    ctEdgeSeq,  \* Constructor machine: the argument edge_seq
    ctGraph,    \* Constructor machine: the Graph object that was constructed, or None
    ctErr,      \* Constructor machine: the exception the constructor raised, "None" if none or not called
    lbG,        \* the source graph of isomorphisms_to, with or without a numbering
    lbH,        \* the target graph, with or without a numbering
    lbFound,    \* None, or Some(what lbG.isomorphisms_to(lbH) gave)
    sbGraph,    \* the un-numbered graph handed to MakeNumberedGraphs
    sbSiblings, \* None, or Some(the numberings of the copies MakeNumberedGraphs returned)
    sbContractions,\* the _contractions list, one object shared by the graph and its copies
    sbCalls,     \* the contract calls made so far: who, edgeno, err, numbering returned
    mgG,         \* self.g of the MgnGraphsIterator
    mgN,         \* self.n
    mgBatch,     \* self._batch
    mgNumVertices,\* self._num_vertices
    mgBuffer,    \* the buffer of the BufferingIterator
    mgLast,      \* None, or Some(the graph that the last next() returned)
    mgRaised,      \* the exception that the last next() raised, or "None"
    mpMap,         \* Mapping machine: the Mapping, a dict, as a function on its keys
    mpOk,          \* None, or Some(what the last extend returned)
    mpRejected,    \* TRUE once an extend on this Mapping has returned False
    orP,           \* Orientation machine: automorphism[0], the list of the images of the vertices
    orP0,          \* automorphism[0] as it was given
    orRots,        \* automorphism[1], the rotation of every vertex
    orLens,        \* [len(v) for v in self.vertices]
    orResult,      \* None, or Some(what is_orientation_reversing returned)
    pmSeq,         \* Permutation machine: self.seq of the InplacePermutationIterator, permuted in place
    pmSeq0,        \* the sequence as it was given
    pmFinished,    \* self.enumeration_finished
    pmYielded,     \* the arrangements that next() has returned
    pmCount,       \* how many times next() has returned
    pmRaised,      \* TRUE once next() has raised StopIteration
    abN,           \* AlgorithmB machine: the argument n
    abL,           \* the list l
    abR,           \* the list r
    abAt,          \* where the generator stands: "B1" before the first next(), "B2" at the yield, "stopped" after StopIteration
    abYielded,     \* the pairs (l, r) as they were when yielded
    abCount,       \* how many pairs have been yielded
    hsG,           \* Hash machine: the graph G
    hsH,           \* the graph H
    hsEq,          \* None, or Some(what G == H returned)
    hsHashG,       \* None, or Some(hash(G))
    hsHashH,       \* None, or Some(hash(H))
    hpHeap,        \* Heap machine: the Vertex objects, the content of each; an object is known by its index
    hpCache,       \* VertexCache.cache: the pairs <<key, Vertex object>>
    hpGraphs,      \* the Graph objects, in the order they were made
    hpContractions,\* the _contractions lists; a Graph and its copies hold the same list
    hpLast         \* None, or Some(the last call of contract: who, edgeno, the graph before, the entry before, what came back)

vertexVars == <<vtx, vorig, vprev, vcalls>>
graphVars == <<g, child, cedge, gerr>>
isoVars == <<isoG, isoH, isoK, isoPc, isoFound, isoEq>>
enumVars == <<gvValences, gvLess, gvSeq, gvFinished, gvGraphs, gvRaised>>
homVars == <<cxDims, cxOptions, cxStore0, cxStore, cxD, cxOracle, cxCalls, cxLoads, cxSaves,
            cxNull, cxEarlier, cxRanks, cxH>>
canonVars == <<cnG, cnLess, cnResult>>
ctorVars == <<ctValences, ctEdgeSeq, ctGraph, ctErr>>
labelVars == <<lbG, lbH, lbFound>>
siblingVars == <<sbGraph, sbSiblings, sbContractions, sbCalls>>
mgnVars == <<mgG, mgN, mgBatch, mgNumVertices, mgBuffer, mgLast, mgRaised>>
mappingVars == <<mpMap, mpOk, mpRejected>>
orientVars == <<orP, orP0, orRots, orLens, orResult>>
permVars == <<pmSeq, pmSeq0, pmFinished, pmYielded, pmCount, pmRaised>>
treeVars == <<abN, abL, abR, abAt, abYielded, abCount>>
hashVars == <<hsG, hsH, hsEq, hsHashG, hsHashH>>
heapVars == <<hpHeap, hpCache, hpGraphs, hpContractions, hpLast>>
vars == <<vertexVars, graphVars, isoVars, enumVars, homVars, canonVars, ctorVars, labelVars, siblingVars, mgnVars, mappingVars, orientVars, permVars, treeVars, hashVars, heapVars>>
notVertexVars == <<graphVars, isoVars, enumVars, homVars, canonVars, ctorVars, labelVars, siblingVars, mgnVars, mappingVars, orientVars, permVars, treeVars, hashVars, heapVars>>
notGraphVars == <<vertexVars, isoVars, enumVars, homVars, canonVars, ctorVars, labelVars, siblingVars, mgnVars, mappingVars, orientVars, permVars, treeVars, hashVars, heapVars>>
notIsoVars == <<vertexVars, graphVars, enumVars, homVars, canonVars, ctorVars, labelVars, siblingVars, mgnVars, mappingVars, orientVars, permVars, treeVars, hashVars, heapVars>>
notEnumVars == <<vertexVars, graphVars, isoVars, homVars, canonVars, ctorVars, labelVars, siblingVars, mgnVars, mappingVars, orientVars, permVars, treeVars, hashVars, heapVars>>
notHomVars == <<vertexVars, graphVars, isoVars, enumVars, canonVars, ctorVars, labelVars, siblingVars, mgnVars, mappingVars, orientVars, permVars, treeVars, hashVars, heapVars>>
notCanonVars == <<vertexVars, graphVars, isoVars, enumVars, homVars, ctorVars, labelVars, siblingVars, mgnVars, mappingVars, orientVars, permVars, treeVars, hashVars, heapVars>>
notCtorVars == <<vertexVars, graphVars, isoVars, enumVars, homVars, canonVars, labelVars, siblingVars, mgnVars, mappingVars, orientVars, permVars, treeVars, hashVars, heapVars>>
notLabelVars == <<vertexVars, graphVars, isoVars, enumVars, homVars, canonVars, ctorVars, siblingVars, mgnVars, mappingVars, orientVars, permVars, treeVars, hashVars, heapVars>>
notSiblingVars == <<vertexVars, graphVars, isoVars, enumVars, homVars, canonVars, ctorVars, labelVars, mgnVars, mappingVars, orientVars, permVars, treeVars, hashVars, heapVars>>
notMgnVars == <<vertexVars, graphVars, isoVars, enumVars, homVars, canonVars, ctorVars, labelVars, siblingVars, mappingVars, orientVars, permVars, treeVars, hashVars, heapVars>>
notMappingVars == <<vertexVars, graphVars, isoVars, enumVars, homVars, canonVars, ctorVars, labelVars, siblingVars, mgnVars, orientVars, permVars, treeVars, hashVars, heapVars>>
notOrientVars == <<vertexVars, graphVars, isoVars, enumVars, homVars, canonVars, ctorVars, labelVars, siblingVars, mgnVars, mappingVars, permVars, treeVars, hashVars, heapVars>>
notPermVars == <<vertexVars, graphVars, isoVars, enumVars, homVars, canonVars, ctorVars, labelVars, siblingVars, mgnVars, mappingVars, orientVars, treeVars, hashVars, heapVars>>
notTreeVars == <<vertexVars, graphVars, isoVars, enumVars, homVars, canonVars, ctorVars, labelVars, siblingVars, mgnVars, mappingVars, orientVars, permVars, hashVars, heapVars>>
notHashVars == <<vertexVars, graphVars, isoVars, enumVars, homVars, canonVars, ctorVars, labelVars, siblingVars, mgnVars, mappingVars, orientVars, permVars, treeVars, heapVars>>
notHeapVars == <<vertexVars, graphVars, isoVars, enumVars, homVars, canonVars, ctorVars, labelVars, siblingVars, mgnVars, mappingVars, orientVars, permVars, treeVars, hashVars>>

None == <<>>
Some(x) == <<x>>
Val(o) == o[1]

(***************************************************************************)
(* Bounds of the Vertex machine.                                           *)
(***************************************************************************)
MaxVertexLen == 4
MaxVertexColour == 2
MaxCanonCalls == 2

(***************************************************************************)
(* Bounds of the Graph machine: the graphs under test have at most         *)
(* MaxEdges edges and at most MaxVertices vertices.                        *)
(***************************************************************************)
MaxEdges == 2
MaxVertices == 3

(***************************************************************************)
(* Bound of the enumerator: the valence profiles given to                  *)
(* GivenValenceGraphsIterator take at most MaxEnumEdges edges (and at most *)
(* MaxVertices vertices).                                                  *)
(***************************************************************************)
MaxEnumEdges == 3

(***************************************************************************)
(* Bounds of the homology machine: a chain complex has at most             *)
(* MaxComplexLength modules, each of dimension at most MaxDim; a rank the  *)
(* oracle returns or a checkpoint file holds is at most MaxDim too.        *)
(***************************************************************************)
MaxComplexLength == 3
MaxDim == 1

(***************************************************************************)
(* Bounds of the constructor machine: Graph(vertex_valences, edge_seq) is  *)
(* called with at most MaxCtorVertices valences, each at most MaxCtorLen,  *)
(* and an edge sequence of at most MaxCtorLen colours in 0..MaxCtorColour. *)
(***************************************************************************)
MaxCtorVertices == 2
MaxCtorLen == 4
MaxCtorColour == 2

(***************************************************************************)
(* Generic sequence helpers.                                               *)
(***************************************************************************)
At(s, k) == s[k + 1]

Range(s) == {s[k] : k \in DOMAIN s}

SeqsUpTo(S, n) == UNION {[1..m -> S] : m \in 0..n}

(* CyclicList.rotate(n): rotate leftwards by n places, in place. *)
Rotate(s, n) ==
    IF Len(s) = 0 THEN s
    ELSE [k \in 1..Len(s) |-> s[((k - 1 + n) % Len(s)) + 1]]

IsRotationOf(s, t) ==
    /\ Len(s) = Len(t)
    /\ \/ Len(s) = 0
       \/ \E n \in 0..(Len(s) - 1) : Rotate(t, n) = s

(***************************************************************************)
(* Vertex.is_canonical_representative (src/rg.py:90-118).                  *)
(* The inner loop over j ends in one of three ways: "break" (rotation i is *)
(* smaller, go on with the next i), "false" (rotation i is larger) or      *)
(* "done" (j ran through the whole vertex).                                *)
(***************************************************************************)
RECURSIVE ICRInner(_, _, _)
ICRInner(s, i, j) ==
    IF j >= Len(s) THEN "done"
    ELSE LET k == IF i + j >= Len(s) THEN i + j - Len(s) ELSE i + j
         IN  IF At(s, k) < At(s, j) THEN "break"
             ELSE IF At(s, k) > At(s, j) THEN "false"
             ELSE ICRInner(s, i, j + 1)

RECURSIVE ICROuter(_, _)
ICROuter(s, i) ==
    IF i >= Len(s) THEN TRUE
    ELSE IF ICRInner(s, i, 0) = "false" THEN FALSE
    ELSE ICROuter(s, i + 1)

is_canonical_representative(s) == ICROuter(s, 1)

(***************************************************************************)
(* Vertex.make_canonical (src/rg.py:120-146).  MCInner is the loop over j  *)
(* for one i: it returns the value of r when the loop ends (by break or by *)
(* exhaustion); an element of rotation i that is larger sets r = i and the *)
(* loop goes on.  MCOuter threads r through i = 1..L-1.                    *)
(***************************************************************************)
RECURSIVE MCInner(_, _, _, _)
MCInner(s, i, j, r) ==
    IF j >= Len(s) THEN r
    ELSE LET k == IF i + j >= Len(s) THEN i + j - Len(s) ELSE i + j
         IN  IF At(s, k) < At(s, j) THEN r
             ELSE IF At(s, k) > At(s, j) THEN MCInner(s, i, j + 1, i)
             ELSE MCInner(s, i, j + 1, r)

RECURSIVE MCOuter(_, _, _)
MCOuter(s, i, r) ==
    IF i >= Len(s) THEN r
    ELSE MCOuter(s, i + 1, MCInner(s, i, 0, r))

make_canonical(s) ==
    LET r == MCOuter(s, 1, 0)
    IN  IF r > 0 THEN Rotate(s, r) ELSE s

(***************************************************************************)
(* Cyclic sequences (cyclicseq.CyclicTuple).  The keys of a numbering and  *)
(* the elements of the boundary-cycle set are CyclicTuple objects, which   *)
(* compare (and hash) equal up to rotation: a CyclicTuple is represented   *)
(* here by the lexicographically largest rotation of its content, so that  *)
(* set membership and dictionary lookup identify rotations.                *)
(***************************************************************************)
RECURSIVE LexLessFrom(_, _, _)
LexLessFrom(s, t, k) ==
    IF k > Len(s) \/ k > Len(t) THEN Len(s) < Len(t)
    ELSE IF s[k] < t[k] THEN TRUE
    ELSE IF s[k] > t[k] THEN FALSE
    ELSE LexLessFrom(s, t, k + 1)

(* Python's list.__lt__: lexicographic, a proper prefix is smaller. *)
LexLess(s, t) == LexLessFrom(s, t, 1)

Rotations(s) == IF Len(s) = 0 THEN {s} ELSE {Rotate(s, n) : n \in 0..(Len(s) - 1)}

CyclicTuple(s) ==
    CHOOSE r \in Rotations(s) : \A q \in Rotations(s) : ~LexLess(r, q)

(***************************************************************************)
(* utils.itranslate as Graph.contract uses it (src/rg.py:632-638): colours *)
(* above edgeno move down by one, edgeno itself is dropped.                *)
(***************************************************************************)
RenumberEdge(edgeno, x) == IF x > edgeno THEN x - 1 ELSE x

RECURSIVE ITranslateEdges(_, _)
ITranslateEdges(edgeno, s) ==
    IF s = <<>> THEN <<>>
    ELSE IF Head(s) = edgeno THEN ITranslateEdges(edgeno, Tail(s))
    ELSE <<RenumberEdge(edgeno, Head(s))>> \o ITranslateEdges(edgeno, Tail(s))

(***************************************************************************)
(* Graph.__init__ (src/rg.py:178-278).                                     *)
(***************************************************************************)
RECURSIVE Concat(_)
Concat(ss) == IF ss = <<>> THEN <<>> ELSE Head(ss) \o Concat(Tail(ss))

RECURSIVE SumSeq(_)
SumSeq(s) == IF s = <<>> THEN 0 ELSE Head(s) + SumSeq(Tail(s))

Valences(vertices) == [k \in DOMAIN vertices |-> Len(vertices[k])]

(* The vertex index (0-based) owning each half-edge of the flattened list. *)
RECURSIVE OwnersFrom(_, _)
OwnersFrom(vertices, vi) ==
    IF vertices = <<>> THEN <<>>
    ELSE [k \in 1..Len(Head(vertices)) |-> vi] \o OwnersFrom(Tail(vertices), vi + 1)

Owners(vertices) == OwnersFrom(vertices, 0)

(* self.endpoints[edge]: the vertices the edge was met in, in vertex order. *)
EndpointsOf(vertices, edge) ==
    LET flat == Concat(vertices)
        own == Owners(vertices)
        hit(k) == flat[k] = edge
    IN  [k \in 1..Cardinality({m \in DOMAIN flat : hit(m)}) |->
            own[CHOOSE m \in DOMAIN flat :
                    /\ hit(m)
                    /\ Cardinality({q \in 1..m : hit(q)}) = k]]

(* Graph._ok (src/rg.py:280-322) for a graph without external edges. *)
GraphOk(G) ==
    /\ G.num_edges > 0
    /\ \A e \in 0..(G.num_edges - 1) :
          /\ Len(G.endpoints[e + 1]) >= 2
          /\ \A m \in 1..2 :
                /\ G.endpoints[e + 1][m] \in 0..(G.num_vertices - 1)
                /\ e \in Range(G.vertices[G.endpoints[e + 1][m] + 1])
    /\ \A x \in Range(Concat(G.vertices)) : x \in 0..(G.num_edges - 1)
    /\ \A e \in 0..(G.num_edges - 1) :
          Cardinality({k \in DOMAIN Concat(G.vertices) : Concat(G.vertices)[k] = e}) = 2

(* Graph(vertices): every keyword argument at its default. *)
Graph(vertices) ==
    LET E == SumSeq(Valences(vertices)) \div 2
    IN  [vertices |-> vertices,
         num_edges |-> E,
         num_vertices |-> Len(vertices),
         endpoints |-> [e1 \in 1..E |-> EndpointsOf(vertices, e1 - 1)],
         numbering |-> None,
         bc |-> None,
         nbc |-> None,
         genus |-> None]

(***************************************************************************)
(* Graph.boundary_components (src/rg.py:461-563).                          *)
(***************************************************************************)
(* list.index(x) and list.index(x, start), 0-based. *)
IndexFrom(v, x, start) ==
    CHOOSE k \in start..(Len(v) - 1) :
        /\ At(v, k) = x
        /\ \A m \in start..(k - 1) : At(v, m) # x

Index(v, x) == IndexFrom(v, x, 0)

(* pass1: the triplet (other_end, other_index, edge) that replaces the edge *)
(* at position pi of vertex vi.                                            *)
Pass1Triplet(G, vi, pi) ==
    LET vertex == G.vertices[vi + 1]
        edge == At(vertex, pi)
        v1 == G.endpoints[edge + 1][1]
        v2 == G.endpoints[edge + 1][2]
        other_end == IF v1 # v2 THEN (IF v1 = vi THEN v2 ELSE v1) ELSE v1
        first == Index(vertex, edge)
        at_other == IF v1 # v2 THEN Index(G.vertices[other_end + 1], edge)
                    ELSE IF first = pi THEN IndexFrom(vertex, edge, pi + 1)
                    ELSE first
        other_index == IF at_other = Len(G.vertices[other_end + 1]) - 1 THEN 0
                       ELSE at_other + 1
    IN  <<other_end, other_index, edge>>

(* vi[k]: where vertex k begins in the linear list of half-edges. *)
VertexBase(G, k) == SumSeq(SubSeq(Valences(G.vertices), 1, k))

(* pass2: the linear list; element pos (0-based) is <<next pos, edge>>. *)
Pass2(G) ==
    LET own == Owners(G.vertices)
    IN  [p1 \in 1..Len(own) |->
            LET vi == own[p1]
                pi == (p1 - 1) - VertexBase(G, vi)
                t == Pass1Triplet(G, vi, pi)
            IN  <<VertexBase(G, t[1]) + t[2], t[3]>>]

(* pass3, inner loop: walk the chain from i until a marked element. *)
RECURSIVE WalkChain(_, _, _, _)
WalkChain(p2, i, seen, acc) ==
    IF i \in seen THEN [cycle |-> acc, seen |-> seen]
    ELSE WalkChain(p2, At(p2, i)[1], seen \cup {i}, Append(acc, At(p2, i)[2]))

(* pass3, outer loop: the list `result` of boundary components. *)
RECURSIVE Pass3(_, _, _, _)
Pass3(p2, pos, seen, result) ==
    IF pos >= Len(p2) THEN result
    ELSE IF pos \in seen THEN Pass3(p2, pos + 1, seen, result)
    ELSE LET w == WalkChain(p2, pos, seen, <<>>)
         IN  Pass3(p2, pos + 1, w.seen, Append(result, w.cycle))

TracedCycles(G) == Pass3(Pass2(G), 0, {}, <<>>)

(* What the method stores and returns when nothing is cached. *)
ComputedBoundaryComponents(G) == {CyclicTuple(c) : c \in Range(TracedCycles(G))}

boundary_components(G) ==
    IF G.bc = None THEN ComputedBoundaryComponents(G) ELSE Val(G.bc)

(* Graph.num_boundary_components (src/rg.py:1068-1084). *)
num_boundary_components(G) ==
    IF G.nbc = None THEN Cardinality(boundary_components(G)) ELSE Val(G.nbc)

(* Graph.genus (src/rg.py:720-729); Python 2 `/` on ints is floor division. *)
genus(G) ==
    IF G.genus = None
    THEN (G.num_edges - G.num_vertices - num_boundary_components(G) + 2) \div 2
    ELSE Val(G.genus)

(* Graph.is_loop (src/rg.py:855-858). *)
is_loop(G, edge) == G.endpoints[edge + 1][1] = G.endpoints[edge + 1][2]

(***************************************************************************)
(* Graph.contract (src/rg.py:565-714), the branch that builds the graph    *)
(* (self._contractions[edgeno] is None).                                   *)
(***************************************************************************)
RemoveAt(s, k) == SubSeq(s, 1, k - 1) \o SubSeq(s, k + 1, Len(s))

RenumberVertex(i1, i2, x) == IF x = i2 THEN i1 ELSE IF x > i2 THEN x - 1 ELSE x

ContractNumbering(G, edgeno) ==
    IF G.numbering = None THEN None
    ELSE Some({<<CyclicTuple(ITranslateEdges(edgeno, kv[1])), kv[2]>> :
                 kv \in Val(G.numbering)})

ContractedGraph(G, edgeno) ==
    LET ep == G.endpoints[edgeno + 1]
        i1 == IF ep[1] < ep[2] THEN ep[1] ELSE ep[2]
        i2 == IF ep[1] < ep[2] THEN ep[2] ELSE ep[1]
        pos1 == Index(G.vertices[i1 + 1], edgeno)
        pos2 == Index(G.vertices[i2 + 1], edgeno)
        new_vertices == [k \in DOMAIN G.vertices |->
                            ITranslateEdges(edgeno, G.vertices[k])]
        v1 == new_vertices[i1 + 1]
        v2 == new_vertices[i2 + 1]
        r1 == IF 0 < pos1 /\ pos1 < Len(v1) THEN Rotate(v1, pos1) ELSE v1
        r2 == IF 0 < pos2 /\ pos2 < Len(v2) THEN Rotate(v2, pos2) ELSE v2
        joined == [new_vertices EXCEPT ![i1 + 1] = r1 \o r2]
        new_endpoints == [e1 \in DOMAIN G.endpoints |->
                            [m \in DOMAIN G.endpoints[e1] |->
                                RenumberVertex(i1, i2, G.endpoints[e1][m])]]
        numbering == ContractNumbering(G, edgeno)
        bc == IF G.bc = None THEN None
              ELSE IF numbering # None THEN Some({kv[1] : kv \in Val(numbering)})
              ELSE Some({CyclicTuple(ITranslateEdges(edgeno, c)) : c \in Val(G.bc)})
    IN  [vertices |-> RemoveAt(joined, i2 + 1),
         num_edges |-> G.num_edges - 1,
         num_vertices |-> Len(G.vertices) - 1,
         endpoints |-> RemoveAt(new_endpoints, edgeno + 1),
         numbering |-> numbering,
         bc |-> bc,
         nbc |-> None,
         genus |-> None]

(***************************************************************************)
(* CyclicList from the cyclicseq module, which is not in src/: subscripts  *)
(* are taken modulo the length, repetition_pattern() gives the position    *)
(* after the first change of value and the lengths of the runs of equal    *)
(* values met from there, all_shifts_for_linear_eq() the shifts at which   *)
(* one list equals the other element by element.                           *)
(***************************************************************************)
CAt(s, k) == s[(k % Len(s)) + 1]

RECURSIVE FirstTransition(_, _)
FirstTransition(v, b) ==
    IF b < Len(v) /\ CAt(v, b) = CAt(v, b + 1) THEN FirstTransition(v, b + 1) ELSE b

RECURSIVE RunLength(_, _, _)
RunLength(v, start, j) ==
    IF j < Len(v) /\ CAt(v, start + j) = CAt(v, start + j + 1)
    THEN RunLength(v, start, j + 1)
    ELSE j

RECURSIVE RPRuns(_, _, _, _)
RPRuns(v, b, i, result) ==
    IF i < Len(v)
    THEN LET j == RunLength(v, b + i, 0)
         IN  RPRuns(v, b, i + j + 1, Append(result, j + 1))
    ELSE result

(* The pair (b, rp) as <<b, rp>>. *)
repetition_pattern(v) ==
    LET b == FirstTransition(v, 0)
    IN  IF b = Len(v) THEN <<0, <<Len(v)>>>>
        ELSE <<b + 1, RPRuns(v, b + 1, 0, <<>>)>>

(* all_shifts_for_linear_eq that starts at shift 1 instead of shift 0. *)
AllShiftsFromOne(rp1, rp2) ==
    {s \in 1..(Len(rp1) - 1) :
        \A i \in 0..(Len(rp1) - 1) : CAt(rp1, i + s) = CAt(rp2, i)}

all_shifts_for_linear_eq(rp1, rp2) ==
    {s \in 0..(Len(rp1) - 1) :
        \A i \in 0..(Len(rp1) - 1) : CAt(rp1, i + s) = CAt(rp2, i)}

(* v[b:b+len(v)]: the len(v) elements met from position b on, cyclically. *)
CyclicSlice(v, b) == [k \in 1..Len(v) |-> CAt(v, b + k - 1)]

(***************************************************************************)
(* Permutation from the combinatorics module, which is not in src/: a      *)
(* mapping kept as a function on the keys set so far.  extend(srcs, dsts)  *)
(* maps srcs[k] to dsts[k] in turn and fails on the first conflict, be it  *)
(* a key with another value or a value with another key; the result is     *)
(* None on failure, else Some(mapping).                                    *)
(***************************************************************************)
RECURSIVE PermutationExtend(_, _, _)
PermutationExtend(pe, srcs, dsts) ==
    IF srcs = <<>> THEN Some(pe)
    ELSE LET src == Head(srcs)
             dst == Head(dsts)
         IN  IF src \in DOMAIN pe
             THEN IF pe[src] # dst THEN None
                  ELSE PermutationExtend(pe, Tail(srcs), Tail(dsts))
             ELSE IF \E x \in DOMAIN pe : pe[x] = dst THEN None
                  ELSE PermutationExtend(
                          [x \in DOMAIN pe \cup {src} |-> IF x = src THEN dst ELSE pe[x]],
                          Tail(srcs), Tail(dsts))

(***************************************************************************)
(* Graph.isomorphisms_to (src/rg.py:922-1066).                             *)
(***************************************************************************)
(* sorted(...), as in self._vertex_valences (src/rg.py:200-201). *)
RECURSIVE Sorted(_)
Sorted(s) ==
    IF s = <<>> THEN <<>>
    ELSE LET m == CHOOSE k \in DOMAIN s : \A j \in DOMAIN s : s[k] <= s[j]
         IN  <<s[m]>> \o Sorted(RemoveAt(s, m))

VertexValences(G) == Sorted(Valences(G.vertices))

(* Graph.valence_spectrum (src/rg.py:1107-1142): valence -> vertex indices. *)
valence_spectrum(G) ==
    [val \in Range(Valences(G.vertices)) |->
        {i \in 0..(G.num_vertices - 1) : Len(G.vertices[i + 1]) = val}]

(* The two assertions on the valence spectra (src/rg.py:968-976). *)
SameValenceDistribution(G, H) ==
    /\ DOMAIN valence_spectrum(G) = DOMAIN valence_spectrum(H)
    /\ \A val \in DOMAIN valence_spectrum(G) :
          Cardinality(valence_spectrum(G)[val]) = Cardinality(valence_spectrum(H)[val])

(* candidate_pvs (src/rg.py:981-995): the vertex index maps that send each *)
(* vertex of G to a vertex of H of its valence, one to one; pv[i + 1] is   *)
(* the image of vertex i.                                                  *)
candidate_pvs(G, H) ==
    {pv \in [1..G.num_vertices -> 0..(H.num_vertices - 1)] :
        /\ \A i, j \in 1..G.num_vertices : pv[i] = pv[j] => i = j
        /\ \A i \in 1..G.num_vertices :
              Len(H.vertices[pv[i] + 1]) = Len(G.vertices[i])}

SumPrefix(rp, s) == SumSeq(SubSeq(rp, 1, s))

(* pvrots[j] (src/rg.py:1021-1023): tuples <<i1, b1 + s, i2, b2>>. *)
PvRots(G, H, vertex_index_map, j) ==
    LET p1 == repetition_pattern(G.vertices[j + 1])
        p2 == repetition_pattern(H.vertices[vertex_index_map[j + 1] + 1])
    IN  {<<j, p1[1] + SumPrefix(p1[2], s), vertex_index_map[j + 1], p2[1]>> :
            s \in all_shifts_for_linear_eq(p1[2], p2[2])}

(* SetProductIterator(pvrots): one tuple of pvrots[j] for every j. *)
PvRotProduct(G, H, vertex_index_map) ==
    {pvrot \in [1..G.num_vertices ->
                  UNION {PvRots(G, H, vertex_index_map, j) : j \in 0..(G.num_vertices - 1)}] :
        \A j \in 0..(G.num_vertices - 1) :
            pvrot[j + 1] \in PvRots(G, H, vertex_index_map, j)}

(* The loop over pvrot that never looks at what pe.extend returns: every   *)
(* pair is set, a later one over an earlier one.                           *)
RECURSIVE BuildPeOverwrites(_, _, _, _, _)
BuildPeOverwrites(G, H, pvrot, k, pe) ==
    IF k > Len(pvrot) THEN Some(pe)
    ELSE LET t == pvrot[k]
             srcs == CyclicSlice(G.vertices[t[1] + 1], t[2])
             dsts == CyclicSlice(H.vertices[t[3] + 1], t[4])
         IN  BuildPeOverwrites(G, H, pvrot, k + 1,
                [x \in DOMAIN pe \cup Range(srcs) |->
                    IF x \in Range(srcs)
                    THEN dsts[CHOOSE m \in DOMAIN srcs :
                                /\ srcs[m] = x
                                /\ \A m2 \in DOMAIN srcs : srcs[m2] = x => m2 <= m]
                    ELSE pe[x]])

(* The loop over pvrot that extends pe (src/rg.py:1025-1034). *)
RECURSIVE BuildPe(_, _, _, _, _)
BuildPe(G, H, pvrot, k, pe) ==
    IF k > Len(pvrot) THEN Some(pe)
    ELSE LET t == pvrot[k]
             v1 == G.vertices[t[1] + 1]
             v2 == H.vertices[t[3] + 1]
             ext == PermutationExtend(pe, CyclicSlice(v1, t[2]), CyclicSlice(v2, t[4]))
         IN  IF ext = None THEN None ELSE BuildPe(G, H, pvrot, k + 1, Val(ext))

(* The comparison of the adjacency lists (src/rg.py:1045-1049). *)
AdjacencyPreserved(G, H, pv, pe) ==
    /\ H.num_edges = G.num_edges
    /\ \A x \in 0..(G.num_edges - 1) :
          Range(H.endpoints[pe[x] + 1]) = {pv[y + 1] : y \in Range(G.endpoints[x + 1])}

(* The numbering check (src/rg.py:1050-1064); a numbering is a set of      *)
(* pairs <<boundary cycle, label>>.                                        *)
NumberingPreserved(G, H, pe) ==
    G.numbering # None =>
        \A bc \in boundary_components(G) :
            \E n \in {kv[2] : kv \in Val(G.numbering)} :
                /\ <<bc, n>> \in Val(G.numbering)
                /\ <<CyclicTuple([k \in DOMAIN bc |-> pe[bc[k]]]), n>> \in Val(H.numbering)

(* The generator that yields every candidate: pe is filled whatever        *)
(* pe.extend returns, and neither the adjacency lists nor the numberings   *)
(* are compared.                                                           *)
IsomorphismsToUnfiltered(G, H) ==
    {[pvrot |-> c[2],
      pv |-> c[1],
      rots |-> [j \in DOMAIN c[2] |-> c[2][j][2] - c[2][j][4]],
      pe |-> [x1 \in 1..G.num_edges |-> Val(BuildPeOverwrites(G, H, c[2], 1, <<>>))[x1 - 1]]] :
        c \in UNION {{<<vim, pvrot>> : pvrot \in PvRotProduct(G, H, vim)} :
                        vim \in candidate_pvs(G, H)}}

(* What the generator yields: one record per accepted pvrot, holding the   *)
(* triple (pv, rots, pe) it gives; pe[x + 1] is the image of colour x.     *)
isomorphisms_to(G, H) ==
    {[pvrot |-> c[2],
      pv |-> c[1],
      rots |-> [j \in DOMAIN c[2] |-> c[2][j][2] - c[2][j][4]],
      pe |-> [x1 \in 1..G.num_edges |-> Val(BuildPe(G, H, c[2], 1, <<>>))[x1 - 1]]] :
        c \in {d \in UNION {{<<vim, pvrot>> : pvrot \in PvRotProduct(G, H, vim)} :
                              vim \in candidate_pvs(G, H)} :
                 LET pe == BuildPe(G, H, d[2], 1, <<>>)
                 IN  /\ pe # None
                     /\ DOMAIN Val(pe) # {}
                     /\ AdjacencyPreserved(G, H, d[1], Val(pe))
                     /\ NumberingPreserved(G, H, Val(pe))}}

(* Graph.__eq__ whose second shortcut forgets to compare the vertices. *)
GraphEqByEndpoints(G, H) ==
    IF \/ G.num_edges # H.num_edges
       \/ G.num_vertices # H.num_vertices
       \/ VertexValences(G) # VertexValences(H)
    THEN FALSE
    ELSE IF /\ G.endpoints = H.endpoints
            /\ G.numbering = H.numbering
    THEN TRUE
    ELSE isomorphisms_to(G, H) # {}

(* Graph.__eq__ (src/rg.py:324-421). *)
GraphEq(G, H) ==
    IF \/ G.num_edges # H.num_edges
       \/ G.num_vertices # H.num_vertices
       \/ VertexValences(G) # VertexValences(H)
    THEN FALSE
    ELSE IF /\ G.vertices = H.vertices
            /\ G.endpoints = H.endpoints
            /\ G.numbering = H.numbering
    THEN TRUE
    ELSE isomorphisms_to(G, H) # {}

(* self.isomorphisms_to(other).next() gives an isomorphism                  *)
(* (src/rg.py:413-421): some vertex index map and some choice of one tuple  *)
(* of pvrots[j] for every vertex j pass the extension of pe, the comparison *)
(* of the adjacency lists and the check of the numbering.  The choices are  *)
(* made vertex by vertex, in the order in which the loop of src/rg.py:1027  *)
(* extends pe, and a branch is left at the first extension that fails; pv   *)
(* holds the images of the vertices before j.                               *)
RECURSIVE YieldsOneFrom(_, _, _, _, _)
YieldsOneFrom(G, H, j, pv, pe) ==
    IF j = G.num_vertices
    THEN /\ DOMAIN pe # {}
         /\ AdjacencyPreserved(G, H, pv, pe)
         /\ NumberingPreserved(G, H, pe)
    ELSE \E i2 \in 0..(H.num_vertices - 1) :
            /\ i2 \notin Range(pv)
            /\ Len(H.vertices[i2 + 1]) = Len(G.vertices[j + 1])
            /\ \E t \in PvRots(G, H, [x \in {j + 1} |-> i2], j) :
                  \E ext \in {PermutationExtend(pe, CyclicSlice(G.vertices[j + 1], t[2]),
                                                CyclicSlice(H.vertices[i2 + 1], t[4]))} :
                     /\ ext # None
                     /\ YieldsOneFrom(G, H, j + 1, Append(pv, i2), Val(ext))

YieldsOne(G, H) == YieldsOneFrom(G, H, 0, <<>>, <<>>)

(* x in graphs, for a list of graphs: x == y (src/rg.py:400-421) is tried  *)
(* on each item.                                                           *)
InList(x, graphs) ==
    \E m \in DOMAIN graphs :
        /\ x.num_edges = graphs[m].num_edges
        /\ x.num_vertices = graphs[m].num_vertices
        /\ VertexValences(x) = VertexValences(graphs[m])
        /\ \/ /\ x.vertices = graphs[m].vertices
              /\ x.endpoints = graphs[m].endpoints
              /\ x.numbering = graphs[m].numbering
           \/ YieldsOne(x, graphs[m])

(***************************************************************************)
(* Graph.is_connected (src/rg.py:817-852): the loop over vertices_to_visit *)
(* and, inside it, the loop over the edges of the vertex.                  *)
(***************************************************************************)
RECURSIVE VisitEdges(_, _, _, _)
VisitEdges(G, vi, k, st) ==
    IF k > Len(G.vertices[vi + 1]) THEN st
    ELSE LET l == G.vertices[vi + 1][k]
             other == IF G.endpoints[l + 1][1] = vi
                      THEN G.endpoints[l + 1][2]
                      ELSE G.endpoints[l + 1][1]
             st1 == IF l \notin st.visited_edges
                    THEN [st EXCEPT
                            !.vertices_to_visit =
                                IF other \notin st.visited_vertices
                                THEN Append(@, other) ELSE @,
                            !.visited_edges = @ \cup {l}]
                    ELSE st
         IN  VisitEdges(G, vi, k + 1, [st1 EXCEPT !.visited_vertices = @ \cup {vi}])

RECURSIVE VisitVertices(_, _, _)
VisitVertices(G, pos, st) ==
    IF pos > Len(st.vertices_to_visit) THEN st
    ELSE VisitVertices(G, pos + 1, VisitEdges(G, st.vertices_to_visit[pos], 1, st))

(* is_connected that is content with reaching one vertex. *)
IsConnectedReachesAny(G) ==
    Cardinality(VisitVertices(G, 1,
        [vertices_to_visit |-> <<0>>, visited_edges |-> {}, visited_vertices |-> {}]
      ).visited_vertices) >= 1

is_connected(G) ==
    Cardinality(VisitVertices(G, 1,
        [vertices_to_visit |-> <<0>>, visited_edges |-> {}, visited_vertices |-> {}]
      ).visited_vertices) = Len(G.vertices)

(***************************************************************************)
(* Graph.is_canonical (src/rg.py:789-814).  What previous_vertex < vertex  *)
(* computes is decided outside src/rg.py: Vertex defines __cmp__           *)
(* (src/rg.py:56-85: valence first, then content), while its base class    *)
(* CyclicList, which is not in src/, derives from list, whose own "<"      *)
(* compares content only.  less tells which of the two is in force:        *)
(* "cmp" or "list".                                                        *)
(***************************************************************************)
VertexCmp(a, b) ==
    IF Len(a) < Len(b) THEN -1
    ELSE IF Len(a) > Len(b) THEN 1
    ELSE IF a = b THEN 0
    ELSE IF LexLess(a, b) THEN -1
    ELSE 1

VertexLess(less, a, b) ==
    IF less = "cmp" THEN VertexCmp(a, b) < 0 ELSE LexLess(a, b)

RECURSIVE IsCanonicalFrom(_, _, _)
IsCanonicalFrom(G, less, k) ==
    IF k > Len(G.vertices) THEN TRUE
    ELSE IF ~is_canonical_representative(G.vertices[k]) THEN FALSE
    ELSE IF k > 1 /\ G.vertices[k - 1] # <<>>
              /\ VertexLess(less, G.vertices[k - 1], G.vertices[k]) THEN FALSE
    ELSE IsCanonicalFrom(G, less, k + 1)

is_canonical(G, less) == IsCanonicalFrom(G, less, 1)

(***************************************************************************)
(* InplacePermutationIterator (src/src/rg.py:691-744) with start = 0 and   *)
(* end = len(seq).  IPINext is next() on an iterator that has not          *)
(* finished: it gives the new content of seq and enumeration_finished.     *)
(***************************************************************************)
Swap(seq, a, b) == [seq EXCEPT ![a + 1] = seq[b + 1], ![b + 1] = seq[a + 1]]

Reverse(seq) == [k \in 1..Len(seq) |-> seq[Len(seq) + 1 - k]]

(* while self.seq[i] >= self.seq[k]: k -= 1 *)
RECURSIVE IPIFindK(_, _, _)
IPIFindK(seq, i, k) == IF At(seq, i) >= At(seq, k) THEN IPIFindK(seq, i, k - 1) ELSE k

(* for l in xrange(0, n): swap seq[j+l] and seq[-1-l] *)
RECURSIVE IPISwaps(_, _, _, _)
IPISwaps(seq, j, l, n) ==
    IF l >= n THEN seq
    ELSE IPISwaps(Swap(seq, j + l, Len(seq) - 1 - l), j, l + 1, n)

RECURSIVE IPILoop(_, _)
IPILoop(seq, i) ==
    IF i = 0 THEN [seq |-> Reverse(seq), enumeration_finished |-> TRUE]
    ELSE LET j == i
             i1 == i - 1
         IN  IF At(seq, i1) < At(seq, j)
             THEN LET k == IPIFindK(seq, i1, Len(seq) - 1)
                      swapped == Swap(seq, i1, k)
                  IN  [seq |-> IF Len(seq) - 2 = j
                               THEN Swap(swapped, j, Len(seq) - 1)
                               ELSE IPISwaps(swapped, j, 0, (Len(seq) - 1 - j) \div 2),
                       enumeration_finished |-> FALSE]
             ELSE IPILoop(seq, i1)

IPINext(seq) == IPILoop(seq, Len(seq) - 1)

(***************************************************************************)
(* GivenValenceGraphsIterator (src/rg.py:1292-1395).                       *)
(***************************************************************************)
(* starting_edge_seq: [0, 0, 1, 1, ..., E-1, E-1] (src/rg.py:1349-1352). *)
StartingEdgeSeq(vertex_valences) ==
    [k \in 1..(2 * (SumSeq(vertex_valences) \div 2)) |-> (k - 1) \div 2]

(* Break a flat edge sequence into vertices of the given valences          *)
(* (src/rg.py:1362-1367).                                                  *)
SplitBy(s, p) ==
    [k \in DOMAIN p |->
        SubSeq(s, SumSeq(SubSeq(p, 1, k - 1)) + 1, SumSeq(SubSeq(p, 1, k)))]

(* The loop of next(): found is Some(current) when a graph is returned and *)
(* None when the edge sequences are exhausted and StopIteration is raised. *)
RECURSIVE GivenValenceNext(_, _, _, _, _)
GivenValenceNext(vertex_valences, less, seq, finished, graphs) ==
    IF finished THEN [seq |-> seq, enumeration_finished |-> TRUE, found |-> None]
    ELSE LET it == IPINext(seq)
             current == Graph(SplitBy(it.seq, vertex_valences))
         IN  IF /\ is_canonical(current, less)
                /\ is_connected(current)
                /\ \A k \in DOMAIN graphs : isomorphisms_to(graphs[k], current) = {}
             THEN [seq |-> it.seq,
                   enumeration_finished |-> it.enumeration_finished,
                   found |-> Some(current)]
             ELSE GivenValenceNext(vertex_valences, less, it.seq,
                                   it.enumeration_finished, graphs)

(***************************************************************************)
(* The Vertex machine: a Vertex is constructed with any content, then      *)
(* make_canonical() is called on it, repeatedly.                           *)
(***************************************************************************)
VertexContents == SeqsUpTo(0..MaxVertexColour, MaxVertexLen)

VertexIdle ==
    /\ vtx = <<>>
    /\ vorig = <<>>
    /\ vprev = <<>>
    /\ vcalls = 0

GraphIdle ==
    /\ g = Graph(<<>>)
    /\ child = None
    /\ cedge = None
    /\ gerr = "None"

IsoIdle ==
    /\ isoG = Graph(<<>>)
    /\ isoH = Graph(<<>>)
    /\ isoK = Graph(<<>>)
    /\ isoPc = 0
    /\ isoFound = <<>>
    /\ isoEq = None

EnumIdle ==
    /\ gvValences = <<>>
    /\ gvLess = "cmp"
    /\ gvSeq = <<>>
    /\ gvFinished = TRUE
    /\ gvGraphs = <<>>
    /\ gvRaised = FALSE

HomIdle ==
    /\ cxDims = <<>>
    /\ cxOptions = "none"
    /\ cxStore0 = <<>>
    /\ cxStore = <<>>
    /\ cxD = None
    /\ cxOracle = <<>>
    /\ cxCalls = <<>>
    /\ cxLoads = <<>>
    /\ cxSaves = <<>>
    /\ cxNull = <<>>
    /\ cxEarlier = None
    /\ cxRanks = <<>>
    /\ cxH = None

CanonIdle ==
    /\ cnG = Graph(<<>>)
    /\ cnLess = "cmp"
    /\ cnResult = None

CtorIdle ==
    /\ ctValences = <<>>
    /\ ctEdgeSeq = <<>>
    /\ ctGraph = None
    /\ ctErr = "None"

LabelIdle ==
    /\ lbG = None
    /\ lbH = None
    /\ lbFound = None

SiblingIdle ==
    /\ sbGraph = None
    /\ sbSiblings = None
    /\ sbContractions = <<>>
    /\ sbCalls = <<>>

MgnIdle ==
    /\ mgG = 0
    /\ mgN = 0
    /\ mgBatch = <<>>
    /\ mgNumVertices = 0
    /\ mgBuffer = <<>>
    /\ mgLast = <<>>
    /\ mgRaised = "None"

MappingIdle ==
    /\ mpMap = <<>>
    /\ mpOk = <<>>
    /\ mpRejected = FALSE

OrientIdle ==
    /\ orP = <<>>
    /\ orP0 = <<>>
    /\ orRots = <<>>
    /\ orLens = <<>>
    /\ orResult = <<>>

PermIdle ==
    /\ pmSeq = <<>>
    /\ pmSeq0 = <<>>
    /\ pmFinished = FALSE
    /\ pmYielded = {}
    /\ pmCount = 0
    /\ pmRaised = FALSE

TreeIdle ==
    /\ abN = 0
    /\ abL = <<>>
    /\ abR = <<>>
    /\ abAt = "B1"
    /\ abYielded = {}
    /\ abCount = 0

HashIdle ==
    /\ hsG = <<>>
    /\ hsH = <<>>
    /\ hsEq = <<>>
    /\ hsHashG = <<>>
    /\ hsHashH = <<>>

HeapIdle ==
    /\ hpHeap = <<>>
    /\ hpCache = {}
    /\ hpGraphs = <<>>
    /\ hpContractions = <<>>
    /\ hpLast = <<>>

InitVertex ==
    /\ vtx \in VertexContents
    /\ vorig = vtx
    /\ vprev = vtx
    /\ vcalls = 0
    /\ GraphIdle
    /\ IsoIdle
    /\ EnumIdle
    /\ HomIdle
    /\ CanonIdle
    /\ CtorIdle
    /\ LabelIdle
    /\ SiblingIdle
    /\ MgnIdle
    /\ MappingIdle
    /\ OrientIdle
    /\ PermIdle
    /\ TreeIdle
    /\ HashIdle
    /\ HeapIdle

MakeCanonical ==
    /\ vcalls < MaxCanonCalls
    /\ vprev' = vtx
    /\ vtx' = make_canonical(vtx)
    /\ vcalls' = vcalls + 1
    /\ UNCHANGED vorig
    /\ UNCHANGED notVertexVars

NextVertex == MakeCanonical

SpecVertex == InitVertex /\ [][NextVertex]_vars

(***************************************************************************)
(* C1: after make_canonical() the vertex holds a rotation of its original  *)
(* content that is_canonical_representative() accepts, and a second call   *)
(* leaves the content as the first call left it.                           *)
(***************************************************************************)
C1_MakeCanonicalIsCanonicalAndIdempotent ==
    vcalls >= 1 =>
        /\ IsRotationOf(vtx, vorig)
        /\ is_canonical_representative(vtx)
        /\ (vcalls >= 2 => vtx = vprev)

(***************************************************************************)
(* The Graph machine: a Graph is constructed from a list of vertices, then *)
(* its query methods and contract() are called on it, in any order.        *)
(***************************************************************************)
(* Flat edge sequences of E edges: every colour in 0..E-1 exactly twice. *)
EdgeSeqs(E) ==
    {s \in [1..(2 * E) -> 0..(E - 1)] :
        \A c \in 0..(E - 1) : Cardinality({k \in 1..(2 * E) : s[k] = c}) = 2}

(* Valence profiles of E edges: non-empty vertices, at most maxV of them. *)
Profiles(E, maxV) ==
    {p \in SeqsUpTo(1..(2 * E), maxV) : SumSeq(p) = 2 * E}

VertexLists(maxE, maxV) ==
    UNION {{SplitBy(s, p) : s \in EdgeSeqs(E), p \in Profiles(E, maxV)} : E \in 1..maxE}

InitGraph ==
    /\ \E vs \in VertexLists(MaxEdges, MaxVertices) : g = Graph(vs)
    /\ child = None
    /\ cedge = None
    /\ gerr = "None"
    /\ VertexIdle
    /\ IsoIdle
    /\ EnumIdle
    /\ HomIdle
    /\ CanonIdle
    /\ CtorIdle
    /\ LabelIdle
    /\ SiblingIdle
    /\ MgnIdle
    /\ MappingIdle
    /\ OrientIdle
    /\ PermIdle
    /\ TreeIdle
    /\ HashIdle
    /\ HeapIdle

(* g.boundary_components(): the result is cached in g. *)
BoundaryComponents ==
    /\ g.bc = None
    /\ g' = [g EXCEPT !.bc = Some(boundary_components(g))]
    /\ UNCHANGED <<child, cedge, gerr>>
    /\ UNCHANGED notGraphVars

(* g.genus(): caches the boundary components, their number and the genus. *)
Genus ==
    /\ g.genus = None
    /\ g' = [g EXCEPT !.bc = Some(boundary_components(g)),
                      !.nbc = Some(num_boundary_components(g)),
                      !.genus = Some(genus(g))]
    /\ UNCHANGED <<child, cedge, gerr>>
    /\ UNCHANGED notGraphVars

(* g.contract(edgeno) for a non-loop edge; the Graph constructor asserts   *)
(* _ok() on the contracted graph, and the call raises when that fails.     *)
Contract(edgeno) ==
    /\ cedge = None
    /\ ~is_loop(g, edgeno)
    /\ cedge' = Some(edgeno)
    /\ IF GraphOk(ContractedGraph(g, edgeno))
       THEN /\ child' = Some(ContractedGraph(g, edgeno))
            /\ gerr' = "None"
       ELSE /\ gerr' = "AssertionError"
            /\ UNCHANGED child
    /\ UNCHANGED g
    /\ UNCHANGED notGraphVars

(* child.genus(), which uses the boundary cycles contract() handed over. *)
ChildGenus ==
    /\ child # None
    /\ Val(child).genus = None
    /\ child' = Some([Val(child) EXCEPT
                        !.bc = Some(boundary_components(Val(child))),
                        !.nbc = Some(num_boundary_components(Val(child))),
                        !.genus = Some(genus(Val(child)))])
    /\ UNCHANGED <<g, cedge, gerr>>
    /\ UNCHANGED notGraphVars

NextGraph ==
    \/ BoundaryComponents
    \/ Genus
    \/ \E edgeno \in 0..(g.num_edges - 1) : Contract(edgeno)
    \/ ChildGenus

SpecGraph == InitGraph /\ [][NextGraph]_vars

(***************************************************************************)
(* C2: once genus() has run on a graph, V - E + n = 2 - 2g holds exactly   *)
(* for the values the object reports, and g is not negative.               *)
(***************************************************************************)
C2_EulerFormula ==
    g.genus # None =>
        /\ g.num_vertices - g.num_edges + Val(g.nbc) = 2 - 2 * Val(g.genus)
        /\ Val(g.genus) >= 0

(***************************************************************************)
(* C3: g.contract(e) returns a graph with one edge less and one vertex     *)
(* less, whose genus and number of boundary cycles, computed on a Graph    *)
(* built anew from the vertices of the contracted graph, are those         *)
(* computed on a Graph built anew from the vertices of g; and the call     *)
(* does return a graph.                                                    *)
(***************************************************************************)
C3_ContractPreservesInvariants ==
    cedge # None =>
        /\ gerr = "None"
        /\ child # None
        /\ Val(child).num_edges = g.num_edges - 1
        /\ Val(child).num_vertices = g.num_vertices - 1
        /\ Len(Val(child).vertices) = Len(g.vertices) - 1
        /\ Len(Concat(Val(child).vertices)) = Len(Concat(g.vertices)) - 2
        /\ genus(Graph(Val(child).vertices)) = genus(Graph(g.vertices))
        /\ num_boundary_components(Graph(Val(child).vertices))
             = num_boundary_components(Graph(g.vertices))

(***************************************************************************)
(* The half-edge successor permutation of a graph.  A half-edge is a pair  *)
(* <<i, k>>: position k of vertex i (both from 1).  Its successor is the   *)
(* half-edge that follows, in the cyclic order of its vertex, the other    *)
(* end of the same edge.                                                   *)
(***************************************************************************)
HalfEdges(G) ==
    {h \in (DOMAIN G.vertices) \X (1..(2 * G.num_edges)) : h[2] <= Len(G.vertices[h[1]])}

OtherEnd(G, h) ==
    CHOOSE o \in HalfEdges(G) :
        o # h /\ G.vertices[o[1]][o[2]] = G.vertices[h[1]][h[2]]

Successor(G, h) ==
    LET o == OtherEnd(G, h)
    IN  <<o[1], (o[2] % Len(G.vertices[o[1]])) + 1>>

RECURSIVE OrbitFrom(_, _, _)
OrbitFrom(G, h, seen) ==
    IF h \in seen THEN seen ELSE OrbitFrom(G, Successor(G, h), seen \cup {h})

SuccessorCycles(G) == {OrbitFrom(G, h, {}) : h \in HalfEdges(G)}

RECURSIVE SumOfLengths(_)
SumOfLengths(S) ==
    IF S = {} THEN 0
    ELSE LET c == CHOOSE x \in S : TRUE IN Len(c) + SumOfLengths(S \ {c})

(* C19: boundary_components() returns one cyclic sequence per cycle of the *)
(* half-edge successor permutation: the number of returned boundary cycles *)
(* is the number of cycles of that permutation, and the lengths of the     *)
(* returned cycles sum to 2*E, loops included.                             *)
C19_BoundaryCyclesAreSuccessorCycles ==
    g.bc # None =>
        /\ Cardinality(Val(g.bc)) = Cardinality(SuccessorCycles(g))
        /\ SumOfLengths(Val(g.bc)) = 2 * g.num_edges

(* The same for the list the method traces, before it is made a set. *)
TracedCyclesAreSuccessorCycles ==
    g.bc # None =>
        /\ Len(TracedCycles(g)) = Cardinality(SuccessorCycles(g))
        /\ SumSeq(Valences(TracedCycles(g))) = 2 * g.num_edges

(***************************************************************************)
(* The isomorphism machine: three graphs G, H, K are constructed, then a   *)
(* script evaluates G == H and calls isomorphisms_to on the pairs listed   *)
(* in IsoCalls, in that order.  K is drawn among the graphs with the       *)
(* valences of H when G has them too, and is H otherwise.                  *)
(***************************************************************************)
IsoGraphs == {Graph(vs) : vs \in VertexLists(MaxEdges, MaxVertices)}

IsoCalls == << <<"G", "G">>, <<"G", "H">>, <<"H", "G">>, <<"H", "K">>, <<"G", "K">> >>

IsoArg(name) == IF name = "G" THEN isoG ELSE IF name = "H" THEN isoH ELSE isoK

InitIso ==
    /\ isoG \in IsoGraphs
    /\ isoH \in IsoGraphs
    /\ isoK \in IF VertexValences(isoG) = VertexValences(isoH)
                THEN {K \in IsoGraphs : VertexValences(K) = VertexValences(isoH)}
                ELSE {isoH}
    /\ isoPc = 0
    /\ isoFound = <<>>
    /\ isoEq = None
    /\ VertexIdle
    /\ GraphIdle
    /\ EnumIdle
    /\ HomIdle
    /\ CanonIdle
    /\ CtorIdle
    /\ LabelIdle
    /\ SiblingIdle
    /\ MgnIdle
    /\ MappingIdle
    /\ OrientIdle
    /\ PermIdle
    /\ TreeIdle
    /\ HashIdle
    /\ HeapIdle

(* G == H *)
Eq ==
    /\ isoPc = 0
    /\ isoEq' = Some(GraphEq(isoG, isoH))
    /\ isoPc' = 1
    /\ UNCHANGED <<isoG, isoH, isoK, isoFound>>
    /\ UNCHANGED notIsoVars

(* list(a.isomorphisms_to(b)); the generator raises AssertionError when    *)
(* the valence spectra of the two graphs differ (src/rg.py:968-976).       *)
IsomorphismsTo(a, b) ==
    /\ isoPc \in 1..Len(IsoCalls)
    /\ IsoCalls[isoPc] = <<a, b>>
    /\ isoFound' = Append(isoFound,
            IF SameValenceDistribution(IsoArg(a), IsoArg(b))
            THEN [err |-> "None", yields |-> isomorphisms_to(IsoArg(a), IsoArg(b))]
            ELSE [err |-> "AssertionError", yields |-> {}])
    /\ isoPc' = isoPc + 1
    /\ UNCHANGED <<isoG, isoH, isoK, isoEq>>
    /\ UNCHANGED notIsoVars

NextIso ==
    \/ Eq
    \/ \E a, b \in {"G", "H", "K"} : IsomorphismsTo(a, b)

SpecIso == InitIso /\ [][NextIso]_vars

(* The k-th call of the script was made and yielded something. *)
IsoCalled(k) == Len(isoFound) >= k

IsoNonEmpty(k) == isoFound[k].err = "None" /\ isoFound[k].yields # {}

RotatedRelabelled(G, H) ==
    /\ G.num_edges = H.num_edges
    /\ G.num_vertices = H.num_vertices
    /\ \E pe \in [0..(G.num_edges - 1) -> 0..(G.num_edges - 1)] :
          /\ \A x, y \in DOMAIN pe : pe[x] = pe[y] => x = y
          /\ \A i \in DOMAIN G.vertices :
                /\ Len(H.vertices[i]) = Len(G.vertices[i])
                /\ \E r \in 0..(Len(G.vertices[i]) - 1) :
                      H.vertices[i] =
                        [k \in DOMAIN G.vertices[i] |-> pe[Rotate(G.vertices[i], r)[k]]]

ValidTriples(G, H) ==
    {t \in candidate_pvs(G, H)
           \X [1..G.num_vertices -> 0..(2 * G.num_edges - 1)]
           \X {pe \in [1..G.num_edges -> 0..(G.num_edges - 1)] :
                  \A x, y \in 1..G.num_edges : pe[x] = pe[y] => x = y} :
        /\ \A i \in DOMAIN G.vertices :
              /\ t[2][i] < Len(G.vertices[i])
              /\ H.vertices[t[1][i] + 1] =
                    [k \in DOMAIN G.vertices[i] |->
                        t[3][Rotate(G.vertices[i], t[2][i])[k] + 1]]
        /\ \A x \in 0..(G.num_edges - 1) :
              Range(H.endpoints[t[3][x + 1] + 1])
                = {t[1][y + 1] : y \in Range(G.endpoints[x + 1])}}

(* The triple of a yielded record, its rotations reduced modulo the valences. *)
YieldedTriple(G, y) ==
    <<y.pv, [j \in DOMAIN y.rots |-> y.rots[j] % Len(G.vertices[j])], y.pe>>

(***************************************************************************)
(* C6: when G and H have equal valence distributions, the call             *)
(* G.isomorphisms_to(H) yields every triple (pv, rots, pe) that carries    *)
(* each vertex of G onto its image as a rotation and preserves adjacency,  *)
(* yields no triple twice, and yields nothing else.                        *)
(***************************************************************************)
C6_IsomorphismsAreAllYieldedOnce ==
    (IsoCalled(2) /\ isoFound[2].err = "None") =>
        /\ {YieldedTriple(isoG, y) : y \in isoFound[2].yields} = ValidTriples(isoG, isoH)
        /\ \A y1, y2 \in isoFound[2].yields :
              YieldedTriple(isoG, y1) = YieldedTriple(isoG, y2) => y1 = y2

(***************************************************************************)
(* The enumerator machine: a GivenValenceGraphsIterator is constructed on  *)
(* a valence profile, then next() is called on it until it raises          *)
(* StopIteration, and after.                                               *)
(***************************************************************************)
InitEnum ==
    /\ \E E \in 1..MaxEnumEdges : gvValences \in Profiles(E, MaxVertices)
    /\ gvLess \in {"cmp", "list"}
    /\ gvSeq = StartingEdgeSeq(gvValences)
    /\ gvFinished = (Len(gvSeq) = 0)
    /\ gvGraphs = <<>>
    /\ gvRaised = FALSE
    /\ VertexIdle
    /\ GraphIdle
    /\ IsoIdle
    /\ HomIdle
    /\ CanonIdle
    /\ CtorIdle
    /\ LabelIdle
    /\ SiblingIdle
    /\ MgnIdle
    /\ MappingIdle
    /\ OrientIdle
    /\ PermIdle
    /\ TreeIdle
    /\ HashIdle
    /\ HeapIdle

(* GivenValenceGraphsIterator.next() *)
GivenValenceGraphsIteratorNext ==
    LET r == GivenValenceNext(gvValences, gvLess, gvSeq, gvFinished, gvGraphs)
    IN  /\ gvSeq' = r.seq
        /\ gvFinished' = r.enumeration_finished
        /\ IF r.found # None
           THEN /\ gvGraphs' = Append(gvGraphs, Val(r.found))
                /\ gvRaised' = FALSE
           ELSE /\ gvRaised' = TRUE
                /\ UNCHANGED gvGraphs
        /\ UNCHANGED <<gvValences, gvLess>>
        /\ UNCHANGED notEnumVars

NextEnum == GivenValenceGraphsIteratorNext

SpecEnum == InitEnum /\ [][NextEnum]_vars

(* The vertices joined to a vertex of S by a path of edges. *)
RECURSIVE ReachedFrom(_, _)
ReachedFrom(G, S) ==
    LET T == S \cup {w \in 0..(G.num_vertices - 1) :
                        \E e \in DOMAIN G.endpoints :
                            /\ w \in Range(G.endpoints[e])
                            /\ Range(G.endpoints[e]) \cap S # {}}
    IN  IF T = S THEN S ELSE ReachedFrom(G, T)

Connected(G) == ReachedFrom(G, {0}) = 0..(G.num_vertices - 1)

(* Some bijection of the vertices and some bijection of the edge colours   *)
(* carry every vertex of G onto a rotation of its image in H.              *)
Isomorphic(G, H) ==
    /\ G.num_edges = H.num_edges
    /\ G.num_vertices = H.num_vertices
    /\ \E pv \in candidate_pvs(G, H) :
       \E pe \in {f \in [0..(G.num_edges - 1) -> 0..(G.num_edges - 1)] :
                    \A x, y \in DOMAIN f : f[x] = f[y] => x = y} :
          \A i \in DOMAIN G.vertices :
             \E r \in 0..(Len(G.vertices[i]) - 1) :
                H.vertices[pv[i] + 1] =
                    [k \in DOMAIN G.vertices[i] |-> pe[Rotate(G.vertices[i], r)[k]]]

(* The edge sequences in the order the permutation iterator gives them. *)
RECURSIVE IPIAll(_)
IPIAll(seq) ==
    LET it == IPINext(seq)
    IN  IF it.enumeration_finished THEN <<it.seq>>
        ELSE <<it.seq>> \o IPIAll(it.seq)

MetOrder == IPIAll(StartingEdgeSeq(gvValences))

(* The place of the edge sequence of G in MetOrder. *)
MetIndex(G) ==
    CHOOSE k \in DOMAIN MetOrder :
        /\ MetOrder[k] = Concat(G.vertices)
        /\ \A m \in 1..(k - 1) : MetOrder[m] # Concat(G.vertices)

(***************************************************************************)
(* C7: every graph the iterator has returned is connected and passes       *)
(* is_canonical(), no two of them are isomorphic, and they come in the     *)
(* order their edge sequences are met: each later in that order than the   *)
(* one before, and none isomorphic to a connected canonical graph met      *)
(* before it.                                                              *)
(***************************************************************************)
C7_YieldedGraphsAreConnectedCanonicalDistinct ==
    \A k \in DOMAIN gvGraphs :
        /\ Connected(gvGraphs[k])
        /\ is_canonical(gvGraphs[k], gvLess)
        /\ \A m \in DOMAIN gvGraphs : m # k => ~Isomorphic(gvGraphs[k], gvGraphs[m])
        /\ Concat(gvGraphs[k].vertices) \in Range(MetOrder)
        /\ k > 1 => MetIndex(gvGraphs[k - 1]) < MetIndex(gvGraphs[k])
        /\ \A m \in 1..(MetIndex(gvGraphs[k]) - 1) :
              LET met == Graph(SplitBy(MetOrder[m], gvValences))
              IN  (is_canonical(met, gvLess) /\ Connected(met))
                      => ~Isomorphic(met, gvGraphs[k])

C7_Witness ==
    /\ Len(gvGraphs) >= 3
    /\ Len(gvValences) >= 2
    /\ gvRaised

(***************************************************************************)
(* C8: once the iterator has raised StopIteration, every connected graph   *)
(* whose vertices have the valences of the profile, in the order of the    *)
(* profile, is isomorphic to exactly one of the graphs it returned.        *)
(***************************************************************************)
C8_EnumerationIsComplete ==
    gvRaised =>
        \A s \in EdgeSeqs(SumSeq(gvValences) \div 2) :
            LET H == Graph(SplitBy(s, gvValences))
            IN  Connected(H) =>
                    Cardinality({k \in DOMAIN gvGraphs : Isomorphic(gvGraphs[k], H)}) = 1

(***************************************************************************)
(* Homology (homology.py).  A matrix is known by its size only: the rank   *)
(* of a matrix is what the rank oracle A.rank() answers.  A                *)
(* DifferentialComplex is the list of its tuples (A, ddim, cdim).          *)
(***************************************************************************)
SimpleMatrix(num_rows, num_columns) ==
    [num_rows |-> num_rows, num_columns |-> num_columns]

NullMatrix == SimpleMatrix(0, 0)

(* ChainComplex.compute_boundary_operators, from the dimensions of         *)
(* module[0..length-1]: D[0] is the null matrix, and D[i] has dim C[i-1]   *)
(* rows and dim C[i] columns.                                              *)
compute_boundary_operators(dims) ==
    <<[A |-> NullMatrix, ddim |-> 0, cdim |-> At(dims, 0)]>> \o
    [i \in 1..(Len(dims) - 1) |->
        [A |-> SimpleMatrix(At(dims, i - 1), At(dims, i)),
         ddim |-> At(dims, i - 1),
         cdim |-> At(dims, i)]]

(* One turn of the loop of DifferentialComplex.compute_homology_ranks for  *)
(* D[i].  st holds the local r, the list ranks, the checkpoint files and   *)
(* the calls of A.rank() made so far; oracle[i+1] is what A.rank() answers *)
(* for D[i].  `checkpoint is not None` is options # "none", and            *)
(* runtime.options.restart is options = "restart".                         *)
HasRows(A) == A.num_rows > 0

(* A.num_rows > 0 and A.num_columns > 0 *)
HasRowsAndColumns(A) == A.num_rows > 0 /\ A.num_columns > 0

(* A load() that finds no file. *)
LoadNothing(store, i) == None

(* load(checkpoint): the list the file of D[i] holds, or None. *)
Load(store, i) == At(store, i)

RankLoopBody(D, oracle, options, st, i) ==
    LET A == At(D, i).A
        has_checkpoint == options # "none"
        loads == has_checkpoint /\ options = "restart"
        rs == IF loads THEN Load(st.store, i) ELSE None
    IN  IF HasRowsAndColumns(A)
        THEN IF rs # None
             THEN LET r == IF Len(Val(rs)) > 0 THEN Val(rs)[1] ELSE st.r
                  IN  [st EXCEPT !.r = r, !.ranks = Append(st.ranks, r),
                                 !.loads = Append(st.loads, i)]
             ELSE LET r == At(oracle, i)
                  IN  [r |-> r,
                       ranks |-> Append(st.ranks, r),
                       store |-> IF has_checkpoint
                                 THEN [st.store EXCEPT ![i + 1] = Some(<<r>>)]
                                 ELSE st.store,
                       calls |-> Append(st.calls, i),
                       loads |-> IF loads THEN Append(st.loads, i) ELSE st.loads,
                       saves |-> IF has_checkpoint THEN Append(st.saves, i)
                                 ELSE st.saves]
        ELSE [st EXCEPT !.r = 0, !.ranks = Append(st.ranks, 0)]

(* The locals of compute_homology_ranks when the loop is entered. *)
RankLoopStart(store) ==
    [r |-> 0, ranks |-> <<>>, store |-> store,
     calls |-> <<>>, loads |-> <<>>, saves |-> <<>>]

RECURSIVE RankLoop(_, _, _, _, _)
RankLoop(D, oracle, options, st, i) ==
    IF i >= Len(D) THEN st
    ELSE RankLoop(D, oracle, options, RankLoopBody(D, oracle, options, st, i), i + 1)

(* domain_dim, without the dimension of the first domain (so that its      *)
(* indices are those of `ranks`).                                          *)
DomainDimUnshifted(D) ==
    [k \in 1..Len(D) |-> D[k].cdim] \o <<D[Len(D)].cdim>>

(* domain_dim: the ddim of each tuple, then the cdim of the last one.      *)
DomainDim(D) ==
    [k \in 1..Len(D) |-> D[k].ddim] \o <<D[Len(D)].cdim>>

(* `ranks` augmented with a map of rank one.                               *)
AugmentedRanksByOne(ranks) == Append(ranks, 1)

(* ranks.append(0): the complex is augmented with the null map.            *)
AugmentedRanks(ranks) == Append(ranks, 0)

(* The list compute_homology_ranks returns, from the list `ranks` the loop *)
(* has built.                                                              *)
HomologyRanks(D, ranks) ==
    LET domain_dim == DomainDim(D)
        aug == AugmentedRanks(ranks)
    IN  [k \in 1..Len(D) |->
            At(domain_dim, (k - 1) + 1) - At(aug, k - 1) - At(aug, (k - 1) + 1)]

minus_one_exp(i) == IF i % 2 = 0 THEN 1 ELSE -1

(* The sum do_homology accumulates in computed_e: the sum over i of        *)
(* (-1)^i * hs[i].                                                         *)
RECURSIVE AlternatingSumFrom(_, _)
AlternatingSumFrom(hs, i) ==
    IF i >= Len(hs) THEN 0
    ELSE minus_one_exp(i) * At(hs, i) + AlternatingSumFrom(hs, i + 1)

AlternatingSum(hs) == AlternatingSumFrom(hs, 0)

(***************************************************************************)
(* The homology machine: a ChainComplex whose modules have the dimensions  *)
(* cxDims is assembled into a DifferentialComplex, whose homology ranks    *)
(* are then computed.  The run has no runtime.options ("none"), or has a   *)
(* checkpoint directory, without ("checkpoint") or with ("restart") the    *)
(* restart option; a checkpoint file is absent (None) or holds a list of   *)
(* one rank.  There is no file for D[0], the null matrix, which no run     *)
(* ever saves.                                                             *)
(***************************************************************************)
(* Whether the product of D[i-1] and D[i] can be other than null: D[0] is  *)
(* the null matrix, and a matrix with no row or no column is null.         *)
CanBeNonNull(dims, i) ==
    i >= 2 /\ At(dims, i - 2) > 0 /\ At(dims, i - 1) > 0 /\ At(dims, i) > 0

StoredValues == {None} \cup {Some(<<v>>) : v \in 0..MaxDim}

InitHomology ==
    /\ \E L \in 1..MaxComplexLength : cxDims \in [1..L -> 0..MaxDim]
    /\ cxOptions \in {"none", "checkpoint", "restart"}
    /\ cxStore0 \in {store \in [1..Len(cxDims) ->
                                    IF cxOptions = "none" THEN {None} ELSE StoredValues] :
                         At(store, 0) = None}
    /\ cxStore = cxStore0
    /\ cxNull \in {nulls \in [1..(Len(cxDims) - 1) -> BOOLEAN] :
                      \A i \in DOMAIN nulls : CanBeNonNull(cxDims, i) \/ nulls[i]}
    /\ cxD = None
    /\ cxOracle = [k \in 1..Len(cxDims) |-> None]
    /\ cxCalls = <<>>
    /\ cxLoads = <<>>
    /\ cxSaves = <<>>
    /\ cxEarlier = None
    /\ cxRanks = <<>>
    /\ cxH = None
    /\ VertexIdle
    /\ GraphIdle
    /\ IsoIdle
    /\ EnumIdle
    /\ CanonIdle
    /\ CtorIdle
    /\ LabelIdle
    /\ SiblingIdle
    /\ MgnIdle
    /\ MappingIdle
    /\ OrientIdle
    /\ PermIdle
    /\ TreeIdle
    /\ HashIdle
    /\ HeapIdle

ComputeBoundaryOperators ==
    /\ cxD = None
    /\ cxD' = Some(compute_boundary_operators(cxDims))
    /\ UNCHANGED <<cxDims, cxOptions, cxStore0, cxStore, cxOracle, cxCalls, cxLoads,
                   cxSaves, cxNull, cxEarlier, cxRanks, cxH>>
    /\ UNCHANGED notHomVars

(* What the rank oracle answers for each matrix of D: the answers are      *)
(* chosen freely, and the answer for a matrix is the same in every run;    *)
(* the oracle is never asked about a matrix with no row or no column, so   *)
(* that answer is left at 0.                                               *)
OracleAnswers(D) ==
    {oracle \in [1..Len(D) -> 0..MaxDim] :
        \A k \in 1..Len(D) :
            /\ (D[k].A.num_rows = 0 \/ D[k].A.num_columns = 0) => oracle[k] = 0
            /\ cxOracle[k] # None => oracle[k] = Val(cxOracle[k])}

(* The answers the oracle has given once it was called for the indices in  *)
(* calls.                                                                  *)
Answered(oracle, calls) ==
    [k \in DOMAIN cxOracle |->
        IF (k - 1) \in Range(calls) THEN Some(oracle[k]) ELSE cxOracle[k]]

(* A run of compute_homology_ranks with a checkpoint directory that is     *)
(* stopped (the process is killed) after `stopped` turns of the loop: the  *)
(* checkpoint files it has written stay.                                   *)
StoppedRun ==
    /\ cxD # None
    /\ cxH = None
    /\ cxEarlier = None
    /\ cxOptions # "none"
    /\ \E options \in {"checkpoint", "restart"}, stopped \in 0..Len(Val(cxD)),
          oracle \in OracleAnswers(Val(cxD)) :
          LET st == RankLoop(SubSeq(Val(cxD), 1, stopped), oracle, options,
                             RankLoopStart(cxStore), 0)
          IN  /\ cxEarlier' = Some([options |-> options, stopped |-> stopped,
                                    store |-> cxStore])
              /\ cxOracle' = Answered(oracle, st.calls)
              /\ cxStore' = st.store
              /\ cxStore0' = st.store
    /\ UNCHANGED <<cxDims, cxOptions, cxD, cxCalls, cxLoads, cxSaves, cxNull, cxRanks, cxH>>
    /\ UNCHANGED notHomVars

(* compute_homology_ranks, run to its return. *)
ComputeHomologyRanks ==
    /\ cxD # None
    /\ cxH = None
    /\ \E oracle \in OracleAnswers(Val(cxD)) :
          LET D == Val(cxD)
              st == RankLoop(D, oracle, cxOptions, RankLoopStart(cxStore), 0)
          IN  /\ cxOracle' = Answered(oracle, st.calls)
              /\ cxStore' = st.store
              /\ cxCalls' = st.calls
              /\ cxLoads' = st.loads
              /\ cxSaves' = st.saves
              /\ cxRanks' = AugmentedRanks(st.ranks)
              /\ cxH' = Some(HomologyRanks(D, st.ranks))
    /\ UNCHANGED <<cxDims, cxOptions, cxStore0, cxD, cxNull, cxEarlier>>
    /\ UNCHANGED notHomVars

NextHomology ==
    \/ ComputeBoundaryOperators
    \/ StoppedRun
    \/ ComputeHomologyRanks

SpecHomology == InitHomology /\ [][NextHomology]_vars

(***************************************************************************)
(* The rank compute_homology_ranks has for D[i], 0 <= i <= L: 0 for the    *)
(* null map past the last operator and for a matrix with no row or no      *)
(* column; the rank its checkpoint file held when the run started, if the  *)
(* run restarts and the file was there; what the rank oracle answers       *)
(* otherwise.                                                              *)
(***************************************************************************)
RankOfD(i) ==
    IF i >= Len(cxDims) \/ i = 0 THEN 0
    ELSE IF At(cxDims, i - 1) = 0 \/ At(cxDims, i) = 0 THEN 0
    ELSE IF cxOptions = "restart" /\ At(cxStore0, i) # None
         THEN Val(At(cxStore0, i))[1]
    ELSE Val(At(cxOracle, i))

(* C9: for modules C[0..L-1] and boundary matrices D[0..L-1], D[0] the     *)
(* null map, compute_homology_ranks returns a list h of length L with      *)
(* h[i] = dim(C[i]) - rank(D[i]) - rank(D[i+1]) for every i, the rank past *)
(* the last operator being 0.                                              *)
C9_HomologyRanksByRankNullity ==
    cxH # None =>
        /\ Len(Val(cxH)) = Len(cxDims)
        /\ \A i \in 0..(Len(cxDims) - 1) :
              At(Val(cxH), i) = At(cxDims, i) - RankOfD(i) - RankOfD(i + 1)

C9_Witness ==
    /\ cxH # None
    /\ Len(cxDims) >= 3
    /\ At(cxDims, 0) = 0
    /\ RankOfD(2) > 0
    /\ At(Val(cxH), 1) = At(cxDims, 1) - RankOfD(2)

(* C10: whatever ranks the rank oracle returns, the alternating sum of the *)
(* returned homology ranks, sum over i of (-1)^i * h[i], equals the        *)
(* alternating sum of the module dimensions, sum over i of                 *)
(* (-1)^i * dim(C[i]).                                                     *)
C10_EulerCharacteristicIsPreserved ==
    cxH # None => AlternatingSum(Val(cxH)) = AlternatingSum(cxDims)

C10_Witness ==
    /\ cxH # None
    /\ Len(cxDims) >= 3
    /\ Len(cxCalls) >= 2
    /\ \E i \in 0..(Len(cxDims) - 1) : At(Val(cxH), i) < 0
    /\ AlternatingSum(cxDims) # 0

(* D[i] has no row or no column: D[0] is the 0x0 null matrix, D[i] has     *)
(* dim C[i-1] rows and dim C[i] columns.                                   *)
HasZeroDimension(i) ==
    i = 0 \/ At(cxDims, i - 1) = 0 \/ At(cxDims, i) = 0

(* C14: for every boundary matrix with zero rows or zero columns the rank  *)
(* used is 0, the rank oracle is not invoked and no checkpoint is read or  *)
(* written for it; the oracle is invoked only on matrices with both        *)
(* dimensions positive.                                                    *)
C14_ZeroDimensionNeedsNoOracle ==
    cxH # None =>
        /\ \A i \in 0..(Len(cxDims) - 1) :
              HasZeroDimension(i) =>
                  /\ At(cxRanks, i) = 0
                  /\ i \notin Range(cxCalls)
                  /\ i \notin Range(cxLoads)
                  /\ i \notin Range(cxSaves)
                  /\ At(cxStore, i) = At(cxStore0, i)
        /\ \A i \in Range(cxCalls) : ~HasZeroDimension(i)

C14_Witness ==
    /\ cxH # None
    /\ cxOptions = "restart"
    /\ \E i \in 1..(Len(cxDims) - 1) :
          /\ HasZeroDimension(i)
          /\ At(cxStore0, i) # None
          /\ Val(At(cxStore0, i))[1] > 0
    /\ cxCalls # <<>>

(* The rank a run with restart enabled has for D[i] when it finds the      *)
(* checkpoint files `store`.                                               *)
RestartedRank(store, i) ==
    IF HasZeroDimension(i) THEN 0
    ELSE IF At(store, i) # None THEN Val(At(store, i))[1]
    ELSE Val(At(cxOracle, i))

(* The checkpoint directory `store` holds no file. *)
IsEmptyStore(store) == \A i \in 0..(Len(cxDims) - 1) : At(store, i) = None

(* C15: with a checkpoint directory and restart enabled, for each boundary *)
(* matrix with both dimensions positive, a stored value is used as the     *)
(* rank and the oracle is not called; with no stored value the oracle is   *)
(* called, and its result is used and saved under the key of the operator. *)
(* Hence a run started after an earlier run was stopped at any point       *)
(* returns the homology ranks of an uninterrupted run.  (The earlier run   *)
(* had restart enabled, or found an empty checkpoint directory.)            *)
C15_RestartResumesFromCheckpoints ==
    (cxH # None /\ cxOptions = "restart") =>
        /\ \A i \in 0..(Len(cxDims) - 1) :
              ~HasZeroDimension(i) =>
                  IF At(cxStore0, i) # None
                  THEN /\ At(cxRanks, i) = Val(At(cxStore0, i))[1]
                       /\ i \notin Range(cxCalls)
                       /\ At(cxStore, i) = At(cxStore0, i)
                  ELSE /\ i \in Range(cxCalls)
                       /\ At(cxRanks, i) = Val(At(cxOracle, i))
                       /\ At(cxStore, i) = Some(<<Val(At(cxOracle, i))>>)
        /\ (/\ cxEarlier # None
            /\ \/ Val(cxEarlier).options = "restart"
               \/ IsEmptyStore(Val(cxEarlier).store))
              => /\ Len(Val(cxH)) = Len(cxDims)
                 /\ \A i \in 0..(Len(cxDims) - 1) :
                       At(Val(cxH), i) =
                           At(cxDims, i)
                           - RestartedRank(Val(cxEarlier).store, i)
                           - (IF i + 1 < Len(cxDims)
                              THEN RestartedRank(Val(cxEarlier).store, i + 1)
                              ELSE 0)

C15_Witness ==
    /\ cxH # None
    /\ cxOptions = "restart"
    /\ cxEarlier # None
    /\ Val(cxEarlier).stopped = 2
    /\ Len(cxDims) >= 3
    /\ At(Val(cxEarlier).store, 1) = None
    /\ At(cxStore0, 1) # None
    /\ cxLoads = <<1, 2>>
    /\ cxCalls = <<2>>
    /\ Val(At(cxOracle, 1)) > 0

(* C16: compute_homology_ranks fails with an assertion, returning no       *)
(* ranks, whenever the product of two consecutive boundary operators       *)
(* D[i], D[i+1] of the complex is not null.                                *)
C16_NonNullProductFails ==
    (\E i \in DOMAIN cxNull : ~cxNull[i]) => cxH = None

(* A run whose ranks are those of matrices: there is no checkpoint, every  *)
(* rank is at most the number of rows and of columns of its matrix, the    *)
(* ranks of two operators with a null product fit in the module between    *)
(* them (the image of D[i] lies in the kernel of D[i-1]), and operators    *)
(* with a product that is not null are not null themselves.                *)
Min(a, b) == IF a <= b THEN a ELSE b

RanksOfMatrices ==
    /\ cxOptions = "none"
    /\ \A i \in 1..(Len(cxDims) - 1) :
          /\ RankOfD(i) <= Min(At(cxDims, i - 1), At(cxDims, i))
          /\ cxNull[i] => RankOfD(i - 1) + RankOfD(i) <= At(cxDims, i - 1)
          /\ ~cxNull[i] => RankOfD(i - 1) >= 1 /\ RankOfD(i) >= 1

(* C29: every homology rank compute_homology_ranks returns is a            *)
(* non-negative integer, for every complex it returns a result for.        *)
C29_HomologyRanksAreNonNegative ==
    (cxH # None /\ RanksOfMatrices) =>
        \A i \in DOMAIN Val(cxH) : Val(cxH)[i] >= 0

(* What the code does keep: the ranks are non-negative when every product  *)
(* of two consecutive operators is null.                                   *)
NullProductsGiveNonNegativeRanks ==
    (cxH # None /\ RanksOfMatrices /\ \A i \in DOMAIN cxNull : cxNull[i]) =>
        \A i \in DOMAIN Val(cxH) : Val(cxH)[i] >= 0

(***************************************************************************)
(* The is_canonical machine: a Graph is built from a list of vertices and  *)
(* is_canonical() is called on it, under either reading of                 *)
(* previous_vertex < vertex.                                               *)
(***************************************************************************)
InitCanon ==
    /\ \E vs \in VertexLists(MaxEdges, MaxVertices) : cnG = Graph(vs)
    /\ cnLess \in {"cmp", "list"}
    /\ cnResult = None
    /\ VertexIdle
    /\ GraphIdle
    /\ IsoIdle
    /\ EnumIdle
    /\ HomIdle
    /\ CtorIdle
    /\ LabelIdle
    /\ SiblingIdle
    /\ MgnIdle
    /\ MappingIdle
    /\ OrientIdle
    /\ PermIdle
    /\ TreeIdle
    /\ HashIdle
    /\ HeapIdle

IsCanonical ==
    /\ cnResult = None
    /\ cnResult' = Some(is_canonical(cnG, cnLess))
    /\ UNCHANGED <<cnG, cnLess>>
    /\ UNCHANGED notCanonVars

NextCanon == IsCanonical

SpecCanon == InitCanon /\ [][NextCanon]_vars

(* v is the lexicographically maximal rotation of itself. *)
IsMaximalRotation(v) == \A r \in Rotations(v) : ~LexLess(v, r)

(* a sorts strictly before b in the order that compares valence first and  *)
(* content only between vertices of equal valence.                         *)
ValenceFirstBefore(a, b) ==
    \/ Len(a) < Len(b)
    \/ Len(a) = Len(b) /\ LexLess(a, b)

(* C12: is_canonical() returns True exactly when every vertex is the       *)
(* lexicographically maximal rotation of itself and the vertex list is     *)
(* non-decreasing under the order that compares valence first and content  *)
(* only between vertices of equal valence.                                 *)
C12_IsCanonicalMeansMaximalAndNonDecreasing ==
    cnResult # None =>
        (Val(cnResult) <=>
            /\ \A k \in DOMAIN cnG.vertices : IsMaximalRotation(cnG.vertices[k])
            /\ \A k \in 1..(Len(cnG.vertices) - 1) :
                  ~ValenceFirstBefore(cnG.vertices[k + 1], cnG.vertices[k]))

(* The same with the order of the list reversed: no vertex sorts before    *)
(* the vertex that follows it.                                             *)
IsCanonicalMeansMaximalAndNonIncreasing ==
    cnResult # None =>
        (Val(cnResult) <=>
            /\ \A k \in DOMAIN cnG.vertices : IsMaximalRotation(cnG.vertices[k])
            /\ \A k \in 1..(Len(cnG.vertices) - 1) :
                  ~ValenceFirstBefore(cnG.vertices[k], cnG.vertices[k + 1]))

(* The same again, in the runs where "<" goes through Vertex.__cmp__. *)
NonIncreasingUnderCmp ==
    cnLess = "cmp" => IsCanonicalMeansMaximalAndNonIncreasing

(***************************************************************************)
(* Graph.__init__(vertex_valences, edge_seq, vertex_factory) of            *)
(* src/src/rg.py:194-226.  The result is the exception raised, or the      *)
(* fields of the object.                                                   *)
(***************************************************************************)
RECURSIVE MaxOfSeq(_)
MaxOfSeq(s) ==
    IF Len(s) = 1 THEN s[1]
    ELSE LET m == MaxOfSeq(Tail(s)) IN IF s[1] > m THEN s[1] ELSE m

(* The Python slice seq[start:end], 0 <= start <= end. *)
PySlice(seq, start, end) ==
    LET lo == IF start > Len(seq) THEN Len(seq) ELSE start
        hi == IF end > Len(seq) THEN Len(seq) ELSE end
    IN  SubSeq(seq, lo + 1, hi)

RECURSIVE SliceVertices(_, _, _, _)
SliceVertices(vertex_valences, edge_seq, current_vertex_index, base) ==
    IF current_vertex_index >= Len(vertex_valences) THEN <<>>
    ELSE LET VLEN == At(vertex_valences, current_vertex_index)
         IN  <<PySlice(edge_seq, base, base + VLEN)>> \o
             SliceVertices(vertex_valences, edge_seq,
                           current_vertex_index + 1, base + VLEN)

GraphInit(vertex_valences, edge_seq) ==
    IF SumSeq(vertex_valences) % 2 # 0
    THEN [err |-> "AssertionError", graph |-> None]
    ELSE IF Len(edge_seq) = 0
    THEN [err |-> "ValueError", graph |-> None]
    ELSE IF MaxOfSeq(edge_seq) # (SumSeq(vertex_valences) \div 2) - 1
    THEN [err |-> "AssertionError", graph |-> None]
    ELSE [err |-> "None",
          graph |-> Some([_vertex_valences |-> vertex_valences,
                          _num_edges |-> SumSeq(vertex_valences) \div 2,
                          _num_vertices |-> Len(vertex_valences),
                          vertices |-> SliceVertices(vertex_valences, edge_seq, 0, 0)])]

(***************************************************************************)
(* The constructor machine: Graph(vertex_valences, edge_seq, Vertex) is    *)
(* called once on arguments of any shape.                                  *)
(***************************************************************************)
InitCtor ==
    /\ ctValences \in SeqsUpTo(0..MaxCtorLen, MaxCtorVertices)
    /\ ctEdgeSeq \in SeqsUpTo(0..MaxCtorColour, MaxCtorLen)
    /\ ctGraph = None
    /\ ctErr = "None"
    /\ VertexIdle
    /\ GraphIdle
    /\ IsoIdle
    /\ EnumIdle
    /\ HomIdle
    /\ CanonIdle
    /\ LabelIdle
    /\ SiblingIdle
    /\ MgnIdle
    /\ MappingIdle
    /\ OrientIdle
    /\ PermIdle
    /\ TreeIdle
    /\ HashIdle
    /\ HeapIdle

Construct ==
    /\ ctGraph = None
    /\ ctErr = "None"
    /\ ctGraph' = GraphInit(ctValences, ctEdgeSeq).graph
    /\ ctErr' = GraphInit(ctValences, ctEdgeSeq).err
    /\ UNCHANGED <<ctValences, ctEdgeSeq>>
    /\ UNCHANGED notCtorVars

NextCtor == Construct

SpecCtor == InitCtor /\ [][NextCtor]_vars

(* How many times colour c occurs in the vertices of the constructed graph. *)
Occurrences(vertices, c) ==
    Cardinality({<<i, k>> \in (DOMAIN vertices) \X (1..MaxCtorLen) :
                    k <= Len(vertices[i]) /\ vertices[i][k] = c})

(* C13: a Graph object is constructed only if every edge colour in [0, E)  *)
(* occurs exactly twice in the edge sequence, the valences sum to an even  *)
(* number and every vertex is non-empty; no Graph object violates the      *)
(* exactly-twice rule.                                                     *)
C13_ConstructionChecksEdgeSequence ==
    ctGraph # None =>
        /\ SumSeq(ctValences) % 2 = 0
        /\ \A c \in 0..((SumSeq(ctValences) \div 2) - 1) :
              /\ Cardinality({k \in DOMAIN ctEdgeSeq : ctEdgeSeq[k] = c}) = 2
              /\ Occurrences(Val(ctGraph).vertices, c) = 2
        /\ \A i \in DOMAIN Val(ctGraph).vertices : Len(Val(ctGraph).vertices[i]) > 0

(***************************************************************************)
(* The numbering machine: G.isomorphisms_to(H) is called once on a pair of *)
(* graphs of the same valences, each with or without a numbering of its    *)
(* boundary cycles.                                                        *)
(***************************************************************************)
MaxLabelEdges == 2
MaxLabelVertices == 2

(* The numberings of the boundary cycles of G with the labels 0..n-1: a    *)
(* dict is the set of its <<key, value>> pairs.                            *)
Numberings(G) ==
    LET bcs == boundary_components(G)
        n == Cardinality(bcs)
    IN  {{<<bc, f[bc]>> : bc \in bcs} :
            f \in {h \in [bcs -> 0..(n - 1)] : \A a, b \in bcs : h[a] = h[b] => a = b}}

(* Graph(vertices, numbering=...), or Graph(vertices). *)
WithNumbering(G) ==
    {G} \cup {[G EXCEPT !.numbering = Some(nb)] : nb \in Numberings(G)}

(* The whole run of the generator (src/rg.py:968-1066): the assertions on  *)
(* the valences come first; the assertions on the numberings are only met  *)
(* by a candidate that has passed the comparison of the adjacency lists,   *)
(* and only when the source has a numbering.                               *)
IsomorphismsToRun(G, H) ==
    LET adjacent == isomorphisms_to([G EXCEPT !.numbering = None], H)
    IN  IF ~SameValenceDistribution(G, H)
        THEN [err |-> "AssertionError", yields |-> {}]
        ELSE IF G.numbering = None \/ adjacent = {}
        THEN [err |-> "None", yields |-> adjacent]
        ELSE IF H.numbering = None
        THEN [err |-> "AssertionError", yields |-> {}]
        ELSE IF Cardinality(Val(G.numbering)) # Cardinality(Val(H.numbering))
        THEN [err |-> "AssertionError", yields |-> {}]
        ELSE [err |-> "None", yields |-> isomorphisms_to(G, H)]

InitLabel ==
    /\ \E vs \in VertexLists(MaxLabelEdges, MaxLabelVertices) :
          lbG \in WithNumbering(Graph(vs))
    /\ \E vs \in VertexLists(MaxLabelEdges, MaxLabelVertices) :
          /\ Valences(vs) = Valences(lbG.vertices)
          /\ lbH \in WithNumbering(Graph(vs))
    /\ lbFound = None
    /\ VertexIdle
    /\ GraphIdle
    /\ IsoIdle
    /\ EnumIdle
    /\ HomIdle
    /\ CanonIdle
    /\ CtorIdle
    /\ SiblingIdle
    /\ MgnIdle
    /\ MappingIdle
    /\ OrientIdle
    /\ PermIdle
    /\ TreeIdle
    /\ HashIdle
    /\ HeapIdle

(* list(lbG.isomorphisms_to(lbH)) *)
LabelledIsomorphismsTo ==
    /\ lbFound = None
    /\ lbFound' = Some(IsomorphismsToRun(lbG, lbH))
    /\ UNCHANGED <<lbG, lbH>>
    /\ UNCHANGED notLabelVars

NextLabel == LabelledIsomorphismsTo

SpecLabel == InitLabel /\ [][NextLabel]_vars

(* The label a numbering gives to a boundary cycle, None when it has none. *)
LabelOf(numbering, bc) ==
    IF numbering = None \/ ~\E kv \in Val(numbering) : kv[1] = bc
    THEN None
    ELSE Some((CHOOSE kv \in Val(numbering) : kv[1] = bc)[2])

(* pe carries every boundary cycle of G to a boundary cycle of H that has  *)
(* the same label.                                                         *)
CarriesLabels(G, H, pe) ==
    \A bc \in boundary_components(G) :
        /\ LabelOf(G.numbering, bc) # None
        /\ LabelOf(G.numbering, bc) =
              LabelOf(H.numbering, CyclicTuple([k \in DOMAIN bc |-> pe[bc[k] + 1]]))

(* C18: whenever the source or the target of isomorphisms_to carries a     *)
(* numbering, every isomorphism that is yielded maps each boundary cycle   *)
(* of the source to a boundary cycle of the target with the same label.    *)
C18_YieldedIsomorphismsCarryLabels ==
    (lbFound # None /\ (lbG.numbering # None \/ lbH.numbering # None)) =>
        \A m \in Val(lbFound).yields : CarriesLabels(lbG, lbH, m.pe)

(* What the code does keep: the labels are carried whenever the source has *)
(* a numbering.                                                            *)
NumberedSourceCarriesLabels ==
    (lbFound # None /\ lbG.numbering # None) =>
        \A m \in Val(lbFound).yields : CarriesLabels(lbG, lbH, m.pe)

(* A numbered source with an isomorphism to a numbered target in the       *)
(* result, the case in which the check of the labels has let one pass.     *)
NumberedSourceYields ==
    /\ lbFound # None
    /\ lbG.numbering # None
    /\ lbH.numbering # None
    /\ lbG.vertices # lbH.vertices
    /\ Val(lbFound).yields # {}

(***************************************************************************)
(* The sibling machine: MakeNumberedGraphs(graph) makes the numbered       *)
(* copies of a graph with copy(graph), a shallow copy, so the graph and    *)
(* its copies hold one and the same _contractions list; contract() is then *)
(* called on the graph and on its copies, in any order.                    *)
(***************************************************************************)
MaxSiblingEdges == 3
MaxSiblingVertices == 2
MaxSiblingCalls == 2
MaxSiblingCycles == 3

(* range(n) *)
RangeSeq(n) == [k \in 1..n |-> k - 1]

(* The orders in which list(a set) can give the elements of the set. *)
ListsOf(S) ==
    {q \in [1..Cardinality(S) -> S] : \A a, b \in DOMAIN q : q[a] = q[b] => a = b}

(* The dicts that dict(pairs) can build: one value is kept for each key,   *)
(* the one of the pair that came last.                                     *)
DictChoices(pairs) ==
    {d \in SUBSET pairs :
        \A kv \in pairs : Cardinality({x \in d : x[1] = kv[1]}) = 1}

(* The loop of MakeNumberedGraphs over the permutations                    *)
(* (src/rg.py:1191-1199): the list graphs after the first k of them.       *)
RECURSIVE MakeNumberedLoop(_, _, _, _)
MakeNumberedLoop(graph, bc, numberings, k) ==
    IF k = 0 THEN <<>>
    ELSE CHOOSE result \in
            {LET copy1 == [graph EXCEPT !.numbering =
                             Some({<<bc[x], numberings[k][x]>> : x \in DOMAIN bc})]
             IN  IF InList(copy1, graphs)
                 THEN graphs
                 ELSE graphs \o <<copy1>> :
                graphs \in {MakeNumberedLoop(graph, bc, numberings, k - 1)}} : TRUE

(* MakeNumberedGraphs(graph) when list(graph.boundary_components()) is bc. *)
MakeNumberedGraphsFrom(graph, bc) ==
    CHOOSE result \in
        {MakeNumberedLoop(cached, bc, numberings, Len(numberings)) :
            cached \in {[graph EXCEPT !.bc = Some(boundary_components(graph)),
                                      !.nbc = Some(num_boundary_components(graph))]},
            numberings \in {IPIAll(RangeSeq(num_boundary_components(graph)))}} : TRUE

InitSibling ==
    /\ \E vs \in VertexLists(MaxSiblingEdges, MaxSiblingVertices) :
          /\ Connected(Graph(vs))
          /\ num_boundary_components(Graph(vs)) <= MaxSiblingCycles
          /\ sbGraph = Graph(vs)
          /\ sbContractions = [e1 \in 1..Graph(vs).num_edges |-> None]
    /\ sbSiblings = None
    /\ sbCalls = <<>>
    /\ VertexIdle
    /\ GraphIdle
    /\ IsoIdle
    /\ EnumIdle
    /\ HomIdle
    /\ CanonIdle
    /\ CtorIdle
    /\ LabelIdle
    /\ MgnIdle
    /\ MappingIdle
    /\ OrientIdle
    /\ PermIdle
    /\ TreeIdle
    /\ HashIdle
    /\ HeapIdle

(* MakeNumberedGraphs(sbGraph) *)
MakeNumberedGraphs ==
    /\ sbSiblings = None
    /\ \E bc \in ListsOf(boundary_components(sbGraph)) :
       \E graphs \in {MakeNumberedGraphsFrom(sbGraph, bc)} :
          sbSiblings' = Some([m \in DOMAIN graphs |-> Val(graphs[m].numbering)])
    /\ sbGraph' = [sbGraph EXCEPT !.bc = Some(boundary_components(sbGraph)),
                                  !.nbc = Some(num_boundary_components(sbGraph))]
    /\ UNCHANGED <<sbContractions, sbCalls>>
    /\ UNCHANGED notSiblingVars

(* The object contract() is called on: 0 is the graph itself, m > 0 its    *)
(* m-th numbered copy.                                                     *)
SiblingObject(who) ==
    IF who = 0 THEN sbGraph
    ELSE [sbGraph EXCEPT !.numbering = Some(Val(sbSiblings)[who])]

Callers == 0..(IF sbSiblings = None THEN 0 ELSE Len(Val(sbSiblings)))

(* self.contract(edgeno) (src/rg.py:565-714) on the graph or on a copy. *)
SiblingContract(who, edgeno) ==
    LET self == SiblingObject(who)
        cached == sbContractions[edgeno + 1]
        built == ContractedGraph(self, edgeno)
    IN  /\ Len(sbCalls) < MaxSiblingCalls
        /\ ~is_loop(self, edgeno)
        /\ IF cached = None
           THEN IF ~GraphOk(built)
                THEN /\ sbCalls' = Append(sbCalls, [who |-> who, edgeno |-> edgeno,
                                        err |-> "AssertionError", numbering |-> None])
                     /\ UNCHANGED sbContractions
                ELSE \E d \in (IF self.numbering = None THEN {None}
                               ELSE {Some(x) : x \in DictChoices(Val(built.numbering))}) :
                        /\ sbContractions' =
                              [sbContractions EXCEPT ![edgeno + 1] =
                                  Some([built EXCEPT !.numbering = d])]
                        /\ sbCalls' = Append(sbCalls, [who |-> who, edgeno |-> edgeno,
                                           err |-> "None", numbering |-> d])
           ELSE IF self.numbering # None /\ Val(cached).numbering = None
           THEN \E x \in DictChoices(Val(ContractNumbering(self, edgeno))) :
                   /\ sbContractions' =
                         [sbContractions EXCEPT ![edgeno + 1] =
                             Some([Val(cached) EXCEPT !.numbering = Some(x)])]
                   /\ sbCalls' = Append(sbCalls, [who |-> who, edgeno |-> edgeno,
                                      err |-> IF Val(cached).bc = None THEN "TypeError"
                                              ELSE IF Val(Val(cached).bc) # {kv[1] : kv \in x}
                                              THEN "AssertionError"
                                              ELSE "None",
                                      numbering |-> Some(x)])
           ELSE /\ sbCalls' = Append(sbCalls, [who |-> who, edgeno |-> edgeno,
                                   err |-> "None", numbering |-> Val(cached).numbering])
                /\ UNCHANGED sbContractions
        /\ UNCHANGED <<sbGraph, sbSiblings>>
        /\ UNCHANGED notSiblingVars

NextSibling ==
    \/ MakeNumberedGraphs
    \/ \E who \in Callers : \E edgeno \in 0..(sbGraph.num_edges - 1) :
          SiblingContract(who, edgeno)

SpecSibling == InitSibling /\ [][NextSibling]_vars

(* The relabellings of the edges that come from an automorphism of G: a    *)
(* permutation of the vertices and a rotation of each vertex.              *)
EdgeAutomorphisms(G) ==
    {pe \in [0..(G.num_edges - 1) -> 0..(G.num_edges - 1)] :
        /\ \A x, y \in DOMAIN pe : pe[x] = pe[y] => x = y
        /\ \E pv \in [1..G.num_vertices -> 1..G.num_vertices] :
              /\ \A i, j \in DOMAIN pv : pv[i] = pv[j] => i = j
              /\ \A i \in DOMAIN pv :
                    \E r \in 0..(Len(G.vertices[i]) - 1) :
                       G.vertices[pv[i]] =
                          [k \in DOMAIN G.vertices[i] |-> pe[Rotate(G.vertices[i], r)[k]]]}

(* pe carries the numbering nb1 onto the numbering nb2. *)
CarriesNumbering(pe, nb1, nb2) ==
    \A kv \in nb1 : <<CyclicTuple([k \in DOMAIN kv[1] |-> pe[kv[1][k]]]), kv[2]>> \in nb2

(* No two of the numberings make isomorphic numbered graphs, and every     *)
(* numbering of the boundary cycles is isomorphic to one of them.          *)
OnePerClass(G, copies) ==
    \A autos \in {EdgeAutomorphisms(G)} :
        /\ \A a, b \in DOMAIN copies :
              a # b => ~\E pe \in autos : CarriesNumbering(pe, copies[a], copies[b])
        /\ \A nb \in Numberings(G) :
              \E m \in DOMAIN copies : \E pe \in autos : CarriesNumbering(pe, nb, copies[m])

(* C17: for a graph with n boundary cycles, each copy MakeNumberedGraphs   *)
(* returns has a numbering that is a bijection from the boundary cycles of *)
(* the graph (the cycles of the half-edge successor permutation) onto      *)
(* 0..n-1, no two copies are isomorphic as numbered graphs, and every      *)
(* numbering is isomorphic to the numbering of a returned copy.  Looked at *)
(* as MakeNumberedGraphs returns, before any contract call.                *)
C17_NumberedCopiesRepresentEveryNumbering ==
    (sbSiblings # None /\ sbCalls = <<>>) =>
        LET n == Cardinality(SuccessorCycles(sbGraph))
            copies == Val(sbSiblings)
        IN  /\ \A m \in DOMAIN copies :
                  /\ Cardinality(copies[m]) = n
                  /\ {kv[1] : kv \in copies[m]} = boundary_components(sbGraph)
                  /\ {kv[2] : kv \in copies[m]} = 0..(n - 1)
            /\ OnePerClass(sbGraph, copies)

(* The same with n the size of the set boundary_components() returns: this *)
(* is what MakeNumberedGraphs keeps.                                       *)
CopiesRepresentEveryNumberingOfTheSet ==
    (sbSiblings # None /\ sbCalls = <<>>) =>
        LET n == num_boundary_components(sbGraph)
            copies == Val(sbSiblings)
        IN  /\ \A m \in DOMAIN copies :
                  /\ Cardinality(copies[m]) = n
                  /\ {kv[1] : kv \in copies[m]} = boundary_components(sbGraph)
                  /\ {kv[2] : kv \in copies[m]} = 0..(n - 1)
            /\ OnePerClass(sbGraph, copies)

(* The contraction of edgeno in G neither fails nor merges two boundary    *)
(* cycles of the numbering into one key.                                   *)
ContractsCleanly(G, edgeno) ==
    /\ GraphOk(ContractedGraph(G, edgeno))
    /\ Cardinality({kv[1] : kv \in Val(ContractNumbering(G, edgeno))}) =
          Cardinality(Val(G.numbering))

(* C20: for a numbered copy G and a non-loop edge e, whatever contract     *)
(* calls were made before on the graph or on its copies,                   *)
(* G.contract(e).numbering is the numbering of G with e removed from the   *)
(* boundary cycles and the colours above e shifted down by one.            *)
C20_ContractKeepsOwnNumbering ==
    \A c \in DOMAIN sbCalls :
        (/\ sbCalls[c].who > 0
         /\ ContractsCleanly(SiblingObject(sbCalls[c].who), sbCalls[c].edgeno)) =>
            /\ sbCalls[c].err = "None"
            /\ sbCalls[c].numbering =
                  ContractNumbering(SiblingObject(sbCalls[c].who), sbCalls[c].edgeno)

(* What holds: the first contract call of an edge, made on a numbered copy *)
(* after MakeNumberedGraphs, gives the numbering of that copy.             *)
FirstContractKeepsOwnNumbering ==
    \A c \in DOMAIN sbCalls :
        (/\ sbCalls[c].who > 0
         /\ \A b \in 1..(c - 1) : sbCalls[b].edgeno # sbCalls[c].edgeno
         /\ ContractsCleanly(SiblingObject(sbCalls[c].who), sbCalls[c].edgeno)) =>
            /\ sbCalls[c].err = "None"
            /\ sbCalls[c].numbering =
                  ContractNumbering(SiblingObject(sbCalls[c].who), sbCalls[c].edgeno)

(* A contract call on a numbered copy that returns, without an error, a    *)
(* graph that carries another numbering than that of the copy.             *)
CopyGetsAnotherNumbering ==
    \E c \in DOMAIN sbCalls :
        /\ sbCalls[c].who > 0
        /\ ContractsCleanly(SiblingObject(sbCalls[c].who), sbCalls[c].edgeno)
        /\ sbCalls[c].err = "None"
        /\ sbCalls[c].numbering #
              ContractNumbering(SiblingObject(sbCalls[c].who), sbCalls[c].edgeno)

(***************************************************************************)
(* MgnGraphsIterator (src/rg.py:1531-1675).                                *)
(***************************************************************************)
(* The bounds of the MgnGraphsIterator machine: the largest genus, the    *)
(* largest number of boundary cycles, the largest valence of a rose.        *)
MaxMgnGenus == 1
MaxMgnBoundary == 3
MaxMgnValence == 6

(* Every graph GivenValenceGraphsIterator(vertex_valences) returns before  *)
(* it raises StopIteration, in the order it returns them.                  *)
RECURSIVE GivenValenceAll(_, _, _, _, _)
GivenValenceAll(vertex_valences, less, seq, finished, graphs) ==
    CHOOSE result \in
        {IF r.found = None THEN graphs
         ELSE GivenValenceAll(vertex_valences, less, r.seq, r.enumeration_finished,
                              graphs \o <<Val(r.found)>>) :
            r \in {GivenValenceNext(vertex_valences, less, seq, finished, graphs)}} : TRUE

(* pass 1 (src/rg.py:1610-1619): the roses of genus g with n boundary      *)
(* cycles, one for each isomorphism class.                                 *)
RECURSIVE RosesLoop(_, _, _, _)
RosesLoop(gg, n, all, k) ==
    IF k = 0 THEN <<>>
    ELSE CHOOSE result \in
            {IF \/ genus(all[k]) # gg
                \/ num_boundary_components(all[k]) # n
                \/ InList(all[k], roses)
             THEN roses
             ELSE roses \o <<all[k]>> :
                roses \in {RosesLoop(gg, n, all, k - 1)}} : TRUE

Roses(gg, n, less) ==
    CHOOSE result \in
        {RosesLoop(gg, n, all, Len(all)) :
            all \in {GivenValenceAll(<<2 * (2 * gg + n - 1)>>, less,
                                     StartingEdgeSeq(<<2 * (2 * gg + n - 1)>>),
                                     FALSE, <<>>)}} : TRUE

(* AlgorithmB (src/rg.py:1398-1440): l and r hold Some(child) or None for  *)
(* each node; step B3 resets the nodes without a left child and stops      *)
(* when it has passed node n - 1.                                          *)
RECURSIVE AlgorithmB3(_, _, _, _)
AlgorithmB3(l, r, j, n) ==
    IF At(l, j) # None THEN [stop |-> FALSE, l |-> l, r |-> r, j |-> j]
    ELSE IF j + 1 >= n
    THEN [stop |-> TRUE, l |-> [l EXCEPT ![j + 1] = Some(j + 1)],
          r |-> [r EXCEPT ![j + 1] = None], j |-> j + 1]
    ELSE AlgorithmB3([l EXCEPT ![j + 1] = Some(j + 1)], [r EXCEPT ![j + 1] = None], j + 1, n)

(* B4: follow the right children from y; the result is <<k, y>>. *)
RECURSIVE AlgorithmB4(_, _, _)
AlgorithmB4(r, k, y) ==
    IF At(r, y) # None THEN AlgorithmB4(r, Some(y), Val(At(r, y))) ELSE <<k, y>>

(* B5 that forgets r[y] = r[j]. *)
AlgorithmB5DropsRight(l, r, j, k, y) ==
    LET r1 == IF k # None THEN [r EXCEPT ![Val(k) + 1] = None] ELSE r
        l1 == IF k # None THEN l ELSE [l EXCEPT ![j + 1] = None]
    IN  [l |-> l1, r |-> [r1 EXCEPT ![j + 1] = Some(y)]]

(* B5: promote y. *)
AlgorithmB5(l, r, j, k, y) ==
    LET r1 == IF k # None THEN [r EXCEPT ![Val(k) + 1] = None] ELSE r
        l1 == IF k # None THEN l ELSE [l EXCEPT ![j + 1] = None]
        r2 == [r1 EXCEPT ![y + 1] = At(r1, j)]
    IN  [l |-> l1, r |-> [r2 EXCEPT ![j + 1] = Some(y)]]

(* The pairs (l, r) the generator yields from the state (l, r) on. *)
RECURSIVE AlgorithmBFrom(_, _, _)
AlgorithmBFrom(l, r, n) ==
    <<[l |-> l, r |-> r]>> \o
        (CHOOSE result \in
            {IF b3.stop THEN <<>>
             ELSE CHOOSE rest \in
                     {AlgorithmBFrom(b5.l, b5.r, n) :
                         b5 \in {AlgorithmB5(b3.l, b3.r, b3.j,
                                     AlgorithmB4(b3.r, None, Val(At(b3.l, b3.j)))[1],
                                     AlgorithmB4(b3.r, None, Val(At(b3.l, b3.j)))[2])}} : TRUE :
                b3 \in {AlgorithmB3(l, r, 0, n)}} : TRUE)

AlgorithmB(n) ==
    AlgorithmBFrom([k \in 1..(n + 1) |-> IF k <= n THEN Some(k) ELSE None],
                   [k \in 1..(n + 1) |-> None], n)

(* Tree(zip(l, r)) (src/rg.py:1443-1502): the vertices of the tree; the    *)
(* loose ends have the colours -1, -2, ... and the internal edges 0, 1, ... *)
RECURSIVE TreeLoop(_, _, _, _, _, _)
TreeLoop(l, r, index, edge_to_parent, next_external, next_internal) ==
    IF index >= Len(l) THEN [vertices |-> <<>>, num_edges |-> next_internal,
                             num_external_edges |-> (0 - next_external) - 1]
    ELSE LET first == IF At(edge_to_parent, index) = None THEN 0 - 1
                      ELSE Val(At(edge_to_parent, index))
             c1 == At(l, index)
             c2 == At(r, index)
             e1 == IF c1 = None THEN next_external ELSE next_internal
             nx1 == IF c1 = None THEN next_external - 1 ELSE next_external
             ni1 == IF c1 = None THEN next_internal ELSE next_internal + 1
             p1 == IF c1 = None THEN edge_to_parent
                   ELSE [edge_to_parent EXCEPT ![Val(c1) + 1] = Some(e1)]
             e2 == IF c2 = None THEN nx1 ELSE ni1
             nx2 == IF c2 = None THEN nx1 - 1 ELSE nx1
             ni2 == IF c2 = None THEN ni1 ELSE ni1 + 1
             p2 == IF c2 = None THEN p1 ELSE [p1 EXCEPT ![Val(c2) + 1] = Some(e2)]
             rest == TreeLoop(l, r, index + 1, p2, nx2, ni2)
         IN  [rest EXCEPT !.vertices = <<<<first, e1, e2>>>> \o rest.vertices]

Tree(l, r) == TreeLoop(l, r, 0, [k \in DOMAIN l |-> None], 0 - 2, 0)

(* rose.graft(tree, 0) for a graph with one vertex (src/rg.py:732-786). *)
GraftOnRose(vertex, num_edges, tree) ==
    Graph([i \in DOMAIN tree.vertices |->
             [k \in DOMAIN tree.vertices[i] |->
                 IF tree.vertices[i][k] < 0
                 THEN vertex[0 - tree.vertices[i][k]]
                 ELSE tree.vertices[i][k] + num_edges]])

(* pass 2 (src/rg.py:1621-1641), from the inside: the loop over the trees  *)
(* for one rotation of the rose, the loop over the rotations for one rose, *)
(* the loop over the roses; trivalent0 is the list at the start of a loop. *)
RECURSIVE TrivalentTrees(_, _, _, _, _, _, _)
TrivalentTrees(gg, n, vertex, num_edges, trees, t, trivalent0) ==
    IF t = 0 THEN trivalent0
    ELSE CHOOSE result \in
            {LET graph == GraftOnRose(vertex, num_edges, trees[t])
             IN  IF \/ genus(graph) # gg
                    \/ num_boundary_components(graph) # n
                    \/ InList(graph, trivalent)
                 THEN trivalent
                 ELSE trivalent \o <<graph>> :
                trivalent \in {TrivalentTrees(gg, n, vertex, num_edges, trees,
                                              t - 1, trivalent0)}} : TRUE

RECURSIVE TrivalentPlaces(_, _, _, _, _, _)
TrivalentPlaces(gg, n, rose, trees, places, trivalent0) ==
    IF places = 0 THEN trivalent0
    ELSE CHOOSE result \in
            {TrivalentTrees(gg, n, Rotate(rose.vertices[1], places - 1), rose.num_edges,
                            trees, Len(trees), trivalent) :
                trivalent \in {TrivalentPlaces(gg, n, rose, trees,
                                               places - 1, trivalent0)}} : TRUE

RECURSIVE TrivalentRoses(_, _, _, _, _)
TrivalentRoses(gg, n, roses, trees, i) ==
    IF i = 0 THEN <<>>
    ELSE CHOOSE result \in
            {TrivalentPlaces(gg, n, roses[i], trees, 2 * (2 * gg + n - 1), trivalent) :
                trivalent \in {TrivalentRoses(gg, n, roses, trees, i - 1)}} : TRUE

(* trees = [Tree(zip(l, r)) for l, r in AlgorithmB(max_valence - 3)] *)
Trees(max_valence) ==
    CHOOSE result \in
        {[t \in DOMAIN lr |-> Tree(lr[t].l, lr[t].r)] :
            lr \in {AlgorithmB(max_valence - 3)}} : TRUE

Trivalent(gg, n, less) ==
    CHOOSE result \in
        {TrivalentRoses(gg, n, roses, trees, Len(roses)) :
            roses \in {Roses(gg, n, less)},
            trees \in {Trees(2 * (2 * gg + n - 1))}} : TRUE

(* The lists that the calls MakeNumberedGraphs(graph), for the first k      *)
(* graphs of a list and in its order, can add to a buffer: every call takes *)
(* the boundary cycles of its graph in one of the orders of the set.        *)
NumberedChoices(graph) ==
    {MakeNumberedGraphsFrom(graph, bc) : bc \in ListsOf(boundary_components(graph))}

RECURSIVE BufferChoices(_, _)
BufferChoices(graphs, k) ==
    IF k = 0 THEN {<<>>}
    ELSE {a \o b : a \in BufferChoices(graphs, k - 1), b \in NumberedChoices(graphs[k])}

(* The graphs of a list once MakeNumberedGraphs has been called on each:   *)
(* the call caches the boundary cycles in the graph.                       *)
AfterMakeNumbered(graphs) ==
    [k \in DOMAIN graphs |->
        [graphs[k] EXCEPT !.bc = Some(boundary_components(graphs[k])),
                          !.nbc = Some(num_boundary_components(graphs[k]))]]

(* The (g, n) pairs that the assertions of __init__ accept                 *)
(* (src/rg.py:1584-1593), within the bounds.                               *)
MgnPairs ==
    {gn \in (0..MaxMgnGenus) \X (1..MaxMgnBoundary) :
        /\ gn[1] > 0 \/ gn[2] >= 3
        /\ 2 * (2 * gn[1] + gn[2] - 1) <= MaxMgnValence}

(* MgnGraphsIterator(g, n) (src/rg.py:1583-1650).  The calls of            *)
(* MakeNumberedGraphs in pass 2 change nothing that pass 2 reads, so that   *)
(* the buffer is what they give on the final list trivalent.               *)
InitMgn ==
    /\ \E gn \in MgnPairs : \E less \in {"cmp", "list"} :
          \E trivalent \in {Trivalent(gn[1], gn[2], less)} :
             /\ mgG = gn[1]
             /\ mgN = gn[2]
             /\ mgBatch = AfterMakeNumbered(trivalent)
             /\ mgNumVertices = 4 * gn[1] + 2 * gn[2] - 4
             /\ mgBuffer \in BufferChoices(trivalent, Len(trivalent))
    /\ mgLast = None
    /\ mgRaised = "None"
    /\ VertexIdle
    /\ GraphIdle
    /\ IsoIdle
    /\ EnumIdle
    /\ HomIdle
    /\ CanonIdle
    /\ CtorIdle
    /\ LabelIdle
    /\ SiblingIdle
    /\ MappingIdle
    /\ OrientIdle
    /\ PermIdle
    /\ TreeIdle
    /\ HashIdle
    /\ HeapIdle

(* The loops of refill (src/rg.py:1658-1667), from the inside: the edges   *)
(* before edge of one graph, then the first k graphs of the batch.  The    *)
(* value is None when a contraction raises AssertionError, and else        *)
(* Some(next_batch).                                                       *)
(* refill without the test `dg not in next_batch`: every contraction goes  *)
(* into the next batch.                                                    *)
RECURSIVE RefillEdgesKeepsAll(_, _, _)
RefillEdgesKeepsAll(graph, edge, next_batch0) ==
    IF edge = 0 THEN Some(next_batch0)
    ELSE CHOOSE result \in
            {IF before = None THEN None
             ELSE IF is_loop(graph, edge - 1) THEN before
             ELSE Some(Val(before) \o <<ContractedGraph(graph, edge - 1)>>) :
                before \in {RefillEdgesKeepsAll(graph, edge - 1, next_batch0)}} : TRUE

RECURSIVE RefillEdges(_, _, _)
RefillEdges(graph, edge, next_batch0) ==
    IF edge = 0 THEN Some(next_batch0)
    ELSE CHOOSE result \in
            {IF before = None THEN None
             ELSE IF is_loop(graph, edge - 1) THEN before
             ELSE IF ~GraphOk(ContractedGraph(graph, edge - 1)) THEN None
             ELSE IF InList(ContractedGraph(graph, edge - 1), Val(before)) THEN before
             ELSE Some(Val(before) \o <<ContractedGraph(graph, edge - 1)>>) :
                before \in {RefillEdges(graph, edge - 1, next_batch0)}} : TRUE

RECURSIVE RefillBatch(_, _)
RefillBatch(batch, k) ==
    IF k = 0 THEN Some(<<>>)
    ELSE CHOOSE result \in
            {IF before = None THEN None
             ELSE RefillEdges(batch[k], batch[k].num_edges, Val(before)) :
                before \in {RefillBatch(batch, k - 1)}} : TRUE

(* next() of the iterator.  BufferingIterator comes from the utils module, *)
(* which is not among the sources: the buffer gives its graphs in the order *)
(* of the doctest (src/rg.py:1545-1566), first in first out; an empty       *)
(* buffer is filled by refill (src/rg.py:1657-1670) first, and              *)
(* StopIteration is raised when it is still empty.                          *)
MgnNext ==
    /\ IF mgBuffer # <<>>
       THEN /\ mgLast' = Some(Head(mgBuffer))
            /\ mgBuffer' = Tail(mgBuffer)
            /\ mgRaised' = "None"
            /\ UNCHANGED <<mgBatch, mgNumVertices>>
       ELSE IF mgNumVertices = 0
       THEN /\ mgLast' = None
            /\ mgRaised' = "StopIteration"
            /\ UNCHANGED <<mgBatch, mgNumVertices, mgBuffer>>
       ELSE \E r \in {RefillBatch(mgBatch, Len(mgBatch))} :
               IF r = None
               THEN /\ mgLast' = None
                    /\ mgRaised' = "AssertionError"
                    /\ UNCHANGED <<mgBatch, mgNumVertices, mgBuffer>>
               ELSE \E result \in BufferChoices(Val(r), Len(Val(r))) :
                       /\ mgBatch' = AfterMakeNumbered(Val(r))
                       /\ mgNumVertices' = mgNumVertices - 1
                       /\ IF result = <<>>
                          THEN /\ mgLast' = None
                               /\ mgRaised' = "StopIteration"
                               /\ mgBuffer' = <<>>
                          ELSE /\ mgLast' = Some(Head(result))
                               /\ mgRaised' = "None"
                               /\ mgBuffer' = Tail(result)
    /\ UNCHANGED <<mgG, mgN>>
    /\ UNCHANGED notMgnVars

NextMgn == MgnNext

SpecMgn == InitMgn /\ [][NextMgn]_vars

(* C11: every graph that MgnGraphsIterator(g, n) yields is connected,       *)
(* carries a numbering, and its genus() is g and its                        *)
(* num_boundary_components() is n.                                          *)
C11_YieldedGraphsAreConnectedNumberedOfGenusGWithNCycles ==
    mgLast # None =>
        /\ is_connected(Val(mgLast))
        /\ Val(mgLast).numbering # None
        /\ genus(Val(mgLast)) = mgG
        /\ num_boundary_components(Val(mgLast)) = mgN

(* What the yielded graphs do have: they are connected and numbered, and    *)
(* the half-edges fall into n cycles of the successor map.                  *)
YieldedGraphsHaveNSuccessorCycles ==
    mgLast # None =>
        /\ is_connected(Val(mgLast))
        /\ Val(mgLast).numbering # None
        /\ Cardinality(SuccessorCycles(Val(mgLast))) = mgN

(* A graph with two boundary cycles that are equal as tuples is yielded.   *)
YieldedWithEqualCycles ==
    /\ mgLast # None
    /\ Cardinality(SuccessorCycles(Val(mgLast))) > num_boundary_components(Val(mgLast))

(* Two lists of vertices are the same fatgraph: a one-to-one map of the    *)
(* vertices and a rotation of each vertex make the edge colours of the     *)
(* first correspond one to one to those of the second.                     *)
RECURSIVE SameFatgraphFrom(_, _, _, _, _)
SameFatgraphFrom(vs, ws, i, used, pe) ==
    IF i > Len(vs) THEN TRUE
    ELSE \E j \in DOMAIN ws \ used :
            /\ Len(ws[j]) = Len(vs[i])
            /\ \E r \in 0..(Len(vs[i]) - 1) :
                  \E new \in {pe \cup {<<vs[i][k], Rotate(ws[j], r)[k]>> : k \in DOMAIN vs[i]}} :
                     /\ \A p, q \in new : (p[1] = q[1]) <=> (p[2] = q[2])
                     /\ SameFatgraphFrom(vs, ws, i + 1, used \cup {j}, new)

SameFatgraph(vs, ws) == Len(vs) = Len(ws) /\ SameFatgraphFrom(vs, ws, 1, {}, {})

(* The vertices of every graph that the contraction of a non-loop edge of  *)
(* a graph of the batch gives.                                             *)
ContractionsOf(batch) ==
    UNION {{ContractedGraph(batch[k], e).vertices :
              e \in {x \in 0..(batch[k].num_edges - 1) : ~is_loop(batch[k], x)}} :
           k \in DOMAIN batch}

(* The number of vertices and of edges of a trivalent graph of genus g     *)
(* with n boundary cycles, and the number of edges left once it is down to *)
(* nv vertices.                                                            *)
TrivalentVertices == 4 * mgG + 2 * mgN - 4

TrivalentEdges == 6 * mgG + 3 * mgN - 6

EdgesAt(nv) == TrivalentEdges - (TrivalentVertices - nv)

(* What next() has returned comes from the current batch: it is a numbered *)
(* variant of one of its graphs, it has as many vertices as the counter of *)
(* refill says, one edge less for every refill so far, and is trivalent    *)
(* before the first refill.                                                *)
YieldedFromBatch ==
    mgLast # None =>
        /\ Val(mgLast).numbering # None
        /\ \E k \in DOMAIN mgBatch : mgBatch[k].vertices = Val(mgLast).vertices
        /\ Val(mgLast).num_vertices = mgNumVertices
        /\ Val(mgLast).num_edges = EdgesAt(mgNumVertices)
        /\ mgNumVertices = TrivalentVertices =>
              \A k \in DOMAIN Val(mgLast).vertices : Len(Val(mgLast).vertices[k]) = 3

(* refill has returned a list TrivalentVertices - mgNumVertices times;     *)
(* StopIteration is raised only with an empty buffer and after the last    *)
(* refill, and nothing else is raised.                                     *)
RefillCount ==
    /\ mgNumVertices \in 0..TrivalentVertices
    /\ mgRaised \in {"None", "StopIteration"}
    /\ mgRaised = "StopIteration" => mgNumVertices = 0 /\ mgBuffer = <<>> /\ mgBatch = <<>>
    /\ mgNumVertices = 1 => \A k \in DOMAIN mgBatch : mgBatch[k].num_vertices = 1

(* A step of next() that calls refill: the new batch holds one graph for   *)
(* every fatgraph that contracting a non-loop edge of a graph of the old   *)
(* batch gives, no two of them the same fatgraph, and a numbered variant   *)
(* of each goes to the caller or into the buffer.                          *)
RefillStep ==
    mgNumVertices' # mgNumVertices =>
        /\ mgNumVertices' = mgNumVertices - 1
        /\ mgBuffer = <<>>
        /\ \E cs \in {ContractionsOf(mgBatch)} :
           \E next \in {[k \in DOMAIN mgBatch' |-> mgBatch'[k].vertices]} :
           \E given \in {{y.vertices : y \in Range(mgBuffer') \cup
                                             (IF mgLast' = None THEN {} ELSE {Val(mgLast')})}} :
              /\ \A i, j \in DOMAIN next : i < j => ~SameFatgraph(next[i], next[j])
              /\ \A c \in cs : \E k \in DOMAIN next : SameFatgraph(c, next[k])
              /\ \A k \in DOMAIN next : next[k] \in cs
              /\ given = Range(next)

(* Every step of next() that changes anything takes a graph from the       *)
(* buffer, or calls refill, which counts down.                             *)
Descent ==
    \/ mgNumVertices' < mgNumVertices
    \/ mgNumVertices' = mgNumVertices /\ Len(mgBuffer') < Len(mgBuffer)

(* C27: MgnGraphsIterator(g, n) yields its graphs in batches of strictly   *)
(* decreasing edge count: first the numbered variants of the trivalent     *)
(* graphs, then, batch after batch, the numbered variants of the pairwise  *)
(* non-isomorphic contractions of every non-loop edge of every graph of    *)
(* the previous batch, down to the one-vertex graphs; refill returns a     *)
(* list at most 4g+2n-4 times and then StopIteration is raised: every      *)
(* call of next() shortens the buffer or counts refill down, so that the   *)
(* iteration terminates.                                                   *)
C27_BatchesOfDecreasingEdgeCountUntilStop ==
    /\ [](YieldedFromBatch /\ RefillCount)
    /\ [][RefillStep /\ Descent]_vars

(* MgnGraphsIterator(1, 2) has given its four batches and the empty one,   *)
(* and has raised StopIteration.                                           *)
C27_Witness ==
    /\ mgG = 1
    /\ mgN = 2
    /\ mgNumVertices = 0
    /\ mgRaised = "StopIteration"

(***************************************************************************)
(* Mapping (src/src/rg.py:774-817): a dict that extend() fills pair by     *)
(* pair.  The machine holds one Mapping, as MorphismIteratorFactory makes  *)
(* one for every candidate (src/src/rg.py:592), and calls extend on it.    *)
(***************************************************************************)
MaxMapColour == 2
MaxMapLen == 2

(* for src, dst in izip(srcs, dsts) (src/src/rg.py:799-804): the pairs are *)
(* taken up to the end of the shorter sequence; a key that is there with   *)
(* another value stops the loop, and the pairs set before it stay.         *)
RECURSIVE MappingExtend(_, _, _)
MappingExtend(m, srcs, dsts) ==
    IF srcs = <<>> \/ dsts = <<>> THEN [map |-> m, ok |-> TRUE]
    ELSE IF Head(srcs) \in DOMAIN m /\ m[Head(srcs)] # Head(dsts)
    THEN [map |-> m, ok |-> FALSE]
    ELSE MappingExtend([x \in DOMAIN m \cup {Head(srcs)} |->
                           IF x = Head(srcs) THEN Head(dsts) ELSE m[x]],
                       Tail(srcs), Tail(dsts))

InitMapping ==
    /\ mpMap = <<>>
    /\ mpOk = None
    /\ mpRejected = FALSE
    /\ VertexIdle
    /\ GraphIdle
    /\ IsoIdle
    /\ EnumIdle
    /\ HomIdle
    /\ CanonIdle
    /\ CtorIdle
    /\ LabelIdle
    /\ SiblingIdle
    /\ MgnIdle
    /\ OrientIdle
    /\ PermIdle
    /\ TreeIdle
    /\ HashIdle
    /\ HeapIdle

(* effective.extend(srcs, dsts) *)
Extend ==
    /\ \E srcs \in SeqsUpTo(0..MaxMapColour, MaxMapLen) :
          \E dsts \in SeqsUpTo(0..MaxMapColour, MaxMapLen) :
             \E r \in {MappingExtend(mpMap, srcs, dsts)} :
                /\ mpMap' = r.map
                /\ mpOk' = Some(r.ok)
                /\ mpRejected' = (mpRejected \/ ~r.ok)
    /\ UNCHANGED notMappingVars

NextMapping == Extend

SpecMapping == InitMapping /\ [][NextMapping]_vars

(* C23: a Mapping on which no extend has returned False is injective: two  *)
(* different source edges never share a destination edge.                  *)
C23_AcceptedMappingIsInjective ==
    ~mpRejected =>
        \A a, b \in DOMAIN mpMap : mpMap[a] = mpMap[b] => a = b

(* What extend does keep: a key that is set never changes its value while  *)
(* extend returns True.                                                    *)
AcceptedExtendKeepsValues ==
    [][mpOk' = Some(TRUE) => \A a \in DOMAIN mpMap : a \in DOMAIN mpMap' /\ mpMap'[a] = mpMap[a]]_vars

(***************************************************************************)
(* Graph.is_orientation_reversing (src/src/rg.py:363-415).                 *)
(***************************************************************************)
MaxOrientVertices == 4
MaxOrientValence == 3
MaxOrientRot == 1

(* sign_of_rotation(l, r) (src/src/rg.py:365-371) *)
sign_of_rotation(l, r) == IF 0 = ((l - 1) * r) % 2 THEN 1 ELSE -1

(* The loop of sign_of_permutation (src/src/rg.py:403-410) from j on: the  *)
(* list p after it, and s.  p[j], p[q] = p[q], q takes the old p[q].       *)
RECURSIVE SignOfPermutationLoop(_, _, _)
SignOfPermutationLoop(p, j, s) ==
    IF j >= Len(p) THEN [p |-> p, s |-> s]
    ELSE LET q == At(p, j)
         IN  IF q # j
             THEN SignOfPermutationLoop(
                     [[p EXCEPT ![j + 1] = At(p, q)] EXCEPT ![q + 1] = q], j + 1, 0 - s)
             ELSE SignOfPermutationLoop(p, j + 1, s)

sign_of_permutation(p) == SignOfPermutationLoop(p, 0, 1)

(* reduce(operator.mul, [...], start) over the first k pairs of            *)
(* izip(lens, rots).                                                       *)
RECURSIVE ProductOfSigns(_, _, _, _)
ProductOfSigns(lens, rots, k, start) ==
    IF k = 0 THEN start
    ELSE ProductOfSigns(lens, rots, k - 1, start) * sign_of_rotation(lens[k], rots[k])

PermutationsOf(n) ==
    {p \in [1..n -> 0..(n - 1)] : \A a, b \in 1..n : p[a] = p[b] => a = b}

InitOrient ==
    /\ \E n \in 1..MaxOrientVertices :
          /\ orP \in PermutationsOf(n)
          /\ orRots \in [1..n -> 0..MaxOrientRot]
          /\ orLens \in [1..n -> 2..MaxOrientValence]
    /\ orP0 = orP
    /\ orResult = None
    /\ VertexIdle
    /\ GraphIdle
    /\ IsoIdle
    /\ EnumIdle
    /\ HomIdle
    /\ CanonIdle
    /\ CtorIdle
    /\ LabelIdle
    /\ SiblingIdle
    /\ MgnIdle
    /\ MappingIdle
    /\ PermIdle
    /\ TreeIdle
    /\ HashIdle
    /\ HeapIdle

(* self.is_orientation_reversing(automorphism): sign_of_permutation works  *)
(* on automorphism[0] itself and leaves it changed.                        *)
IsOrientationReversing ==
    /\ orResult = None
    /\ \E sp \in {sign_of_permutation(orP)} :
          /\ orResult' = Some(-1 = ProductOfSigns(orLens, orRots, Len(orLens), sp.s))
          /\ orP' = sp.p
    /\ UNCHANGED <<orP0, orRots, orLens>>
    /\ UNCHANGED notOrientVars

NextOrient == IsOrientationReversing

SpecOrient == InitOrient /\ [][NextOrient]_vars

(* The parity sign of a permutation: -1 to the number of inversions. *)
ParitySign(p) ==
    IF Cardinality({ab \in (DOMAIN p) \X (DOMAIN p) : ab[1] < ab[2] /\ p[ab[1]] > p[ab[2]]}) % 2 = 0
    THEN 1 ELSE -1

(* C24: is_orientation_reversing returns True exactly when the parity sign *)
(* of the vertex permutation times the product of the rotation signs of    *)
(* the vertices is -1.                                                     *)
C24_OrientationReversingIsSignProduct ==
    orResult # None =>
        (Val(orResult) = (-1 = ProductOfSigns(orLens, orRots, Len(orLens), ParitySign(orP0))))

(* What the code does keep: the claim on up to three vertices. *)
SignProductUpToThreeVertices ==
    (orResult # None /\ Len(orP0) <= 3) =>
        (Val(orResult) = (-1 = ProductOfSigns(orLens, orRots, Len(orLens), ParitySign(orP0))))

(***************************************************************************)
(* The InplacePermutationIterator machine (src/src/rg.py:691-744): the     *)
(* iterator is made on a sequence in non-decreasing order, as all_edge_seq *)
(* (src/src/rg.py:755-759) makes it, and next() is called until it raises  *)
(* StopIteration.                                                          *)
(***************************************************************************)
MaxPermLen == 5
MaxPermColour == 4

InitPerm ==
    /\ pmSeq \in {q \in SeqsUpTo(0..MaxPermColour, MaxPermLen) :
                    \A k \in 1..(Len(q) - 1) : q[k] <= q[k + 1]}
    /\ pmSeq0 = pmSeq
    /\ pmFinished = (Len(pmSeq) = 0)
    /\ pmYielded = {}
    /\ pmCount = 0
    /\ pmRaised = FALSE
    /\ VertexIdle
    /\ GraphIdle
    /\ IsoIdle
    /\ EnumIdle
    /\ HomIdle
    /\ CanonIdle
    /\ CtorIdle
    /\ LabelIdle
    /\ SiblingIdle
    /\ MgnIdle
    /\ MappingIdle
    /\ OrientIdle
    /\ TreeIdle
    /\ HashIdle
    /\ HeapIdle

(* next() (src/src/rg.py:720-744) *)
PermNext ==
    /\ ~pmRaised
    /\ IF pmFinished
       THEN /\ pmRaised' = TRUE
            /\ UNCHANGED <<pmSeq, pmFinished, pmYielded, pmCount>>
       ELSE \E it \in {IPINext(pmSeq)} :
               /\ pmSeq' = it.seq
               /\ pmFinished' = it.enumeration_finished
               /\ pmYielded' = pmYielded \cup {it.seq}
               /\ pmCount' = pmCount + 1
               /\ UNCHANGED pmRaised
    /\ UNCHANGED pmSeq0
    /\ UNCHANGED notPermVars

NextPerm == PermNext

SpecPerm == InitPerm /\ [][NextPerm]_vars

(* The distinct arrangements of the elements of seq. *)
Arrangements(seq) ==
    {q \in [1..Len(seq) -> Range(seq)] :
        \A x \in Range(seq) :
            Cardinality({k \in DOMAIN q : q[k] = x}) = Cardinality({k \in DOMAIN seq : seq[k] = x})}

(* C25: when next() raises StopIteration it has returned every distinct    *)
(* arrangement of the elements of seq exactly once, the initial one last.  *)
C25_EveryArrangementOnce ==
    pmRaised =>
        /\ pmYielded = Arrangements(pmSeq0)
        /\ pmCount = Cardinality(pmYielded)
        /\ pmSeq = pmSeq0

(* What the code does keep: the claim on sequences of one to four          *)
(* elements, and on the others that no arrangement is returned twice and   *)
(* that the sequence is left as it was given.                              *)
EveryArrangementOnceUpToFour ==
    pmRaised =>
        /\ Len(pmSeq0) \in 1..4 => pmYielded = Arrangements(pmSeq0)
        /\ pmCount = Cardinality(pmYielded)
        /\ pmSeq = pmSeq0

(***************************************************************************)
(* The AlgorithmB machine (src/rg.py:1398-1440): the generator is made for *)
(* some n and next() is called on it until it raises StopIteration.        *)
(***************************************************************************)
MaxTreeN == 5

InitTree ==
    /\ abN \in 0..MaxTreeN
    /\ abL = <<>>
    /\ abR = <<>>
    /\ abAt = "B1"
    /\ abYielded = {}
    /\ abCount = 0
    /\ VertexIdle
    /\ GraphIdle
    /\ IsoIdle
    /\ EnumIdle
    /\ HomIdle
    /\ CanonIdle
    /\ CtorIdle
    /\ LabelIdle
    /\ SiblingIdle
    /\ MgnIdle
    /\ MappingIdle
    /\ OrientIdle
    /\ PermIdle
    /\ HashIdle
    /\ HeapIdle

(* The first next(): B1, then the yield of B2 (src/rg.py:1414-1419). *)
AlgorithmBStart ==
    /\ abAt = "B1"
    /\ abL' = [k \in 1..(abN + 1) |-> IF k <= abN THEN Some(k) ELSE None]
    /\ abR' = [k \in 1..(abN + 1) |-> None]
    /\ abAt' = "B2"
    /\ abYielded' = {[l |-> abL', r |-> abR']}
    /\ abCount' = 1
    /\ UNCHANGED abN
    /\ UNCHANGED notTreeVars

(* A later next(): B3, B4, B5 and the yield of B2, or StopIteration out of *)
(* B3 (src/rg.py:1420-1440).                                               *)
AlgorithmBResume ==
    /\ abAt = "B2"
    /\ \E b3 \in {AlgorithmB3(abL, abR, 0, abN)} :
          IF b3.stop
          THEN /\ abL' = b3.l
               /\ abR' = b3.r
               /\ abAt' = "stopped"
               /\ UNCHANGED <<abYielded, abCount>>
          ELSE \E ky \in {AlgorithmB4(b3.r, None, Val(At(b3.l, b3.j)))} :
                  \E b5 \in {AlgorithmB5(b3.l, b3.r, b3.j, ky[1], ky[2])} :
                     /\ abL' = b5.l
                     /\ abR' = b5.r
                     /\ abAt' = "B2"
                     /\ abYielded' = abYielded \cup {b5}
                     /\ abCount' = abCount + 1
    /\ UNCHANGED abN
    /\ UNCHANGED notTreeVars

NextTree == AlgorithmBStart \/ AlgorithmBResume

SpecTree == InitTree /\ [][NextTree]_vars /\ WF_vars(NextTree)

(* The binary trees with k nodes, numbered in pre-order from first on, as  *)
(* sets of triples <<node, left child, right child>>, a child being None   *)
(* or Some(node).                                                          *)
RECURSIVE BinaryTrees(_, _)
BinaryTrees(k, first) ==
    IF k = 0 THEN {{}}
    ELSE UNION {{{<<first, IF a > 0 THEN Some(first + 1) ELSE None,
                           IF k - 1 - a > 0 THEN Some(first + 1 + a) ELSE None>>}
                    \cup left \cup right :
                   left \in BinaryTrees(a, first + 1),
                   right \in BinaryTrees(k - 1 - a, first + 1 + a)} : a \in 0..(k - 1)}

TableOf(lr) == {<<k - 1, lr.l[k], lr.r[k]>> : k \in DOMAIN lr.l}

CatalanNumbers == <<1, 2, 5, 14, 42, 132>>

AllTreesOnce ==
    /\ abAt = "stopped"
    /\ {TableOf(lr) : lr \in abYielded} = BinaryTrees(abN + 1, 0)
    /\ abCount = Cardinality(abYielded)
    /\ abCount = CatalanNumbers[abN + 1]

(* C26: AlgorithmB(n) comes to StopIteration, and has then yielded every   *)
(* binary tree with n + 1 nodes exactly once: 1, 2, 5, 14, 42, 132 pairs   *)
(* for n = 0..5.                                                           *)
C26_AlgorithmBYieldsEveryTreeOnce == <>AllTreesOnce

C26_Witness == abAt = "stopped" /\ abN = 5 /\ abCount = 132

(***************************************************************************)
(* C22: every triple (pv, rots, pe) that a call G.isomorphisms_to(H)       *)
(* yields is an isomorphism: pv is a bijection of the vertex indices that  *)
(* keeps the valence, pe is a bijection of the edge colours, and the       *)
(* endpoints of pe[x] in H are the images under pv of the endpoints of x   *)
(* in G, for every edge x.                                                 *)
(***************************************************************************)
IsValidIsomorphism(G, H, y) ==
    /\ DOMAIN y.pv = 1..G.num_vertices
    /\ Range(y.pv) = 0..(H.num_vertices - 1)
    /\ \A i, j \in DOMAIN y.pv : y.pv[i] = y.pv[j] => i = j
    /\ \A i \in DOMAIN y.pv : Len(H.vertices[y.pv[i] + 1]) = Len(G.vertices[i])
    /\ DOMAIN y.pe = 1..G.num_edges
    /\ Range(y.pe) = 0..(H.num_edges - 1)
    /\ \A x1, x2 \in DOMAIN y.pe : y.pe[x1] = y.pe[x2] => x1 = x2
    /\ \A x \in 0..(G.num_edges - 1) :
          Range(H.endpoints[y.pe[x + 1] + 1]) = {y.pv[v + 1] : v \in Range(G.endpoints[x + 1])}

C22_YieldedTriplesAreIsomorphisms ==
    \A k \in DOMAIN isoFound :
        \A y \in isoFound[k].yields :
            IsValidIsomorphism(IsoArg(IsoCalls[k][1]), IsoArg(IsoCalls[k][2]), y)

(* G.isomorphisms_to(H) has yielded a triple that moves a vertex, for two  *)
(* graphs with different vertex lists.                                     *)
C22_Witness ==
    /\ Len(isoFound) >= 2
    /\ isoG.vertices # isoH.vertices
    /\ \E y \in isoFound[2].yields : \E i \in DOMAIN y.pv : y.pv[i] # i - 1

(***************************************************************************)
(* Graph.__hash__ (src/rg.py:426-427) and Graph.__eq__ on two graphs.      *)
(***************************************************************************)
MaxHashEdges == 2
MaxHashVertices == 2
MaxHashValue == 1

(* self.edge_seq when the constructor is not given one (src/rg.py:203-206) *)
edge_seq(G) == Concat(G.vertices)

InitHash ==
    /\ \E vs \in VertexLists(MaxHashEdges, MaxHashVertices) : hsG = Graph(vs)
    /\ \E vs \in VertexLists(MaxHashEdges, MaxHashVertices) : hsH = Graph(vs)
    /\ hsEq = None
    /\ hsHashG = None
    /\ hsHashH = None
    /\ VertexIdle
    /\ GraphIdle
    /\ IsoIdle
    /\ EnumIdle
    /\ HomIdle
    /\ CanonIdle
    /\ CtorIdle
    /\ LabelIdle
    /\ SiblingIdle
    /\ MgnIdle
    /\ MappingIdle
    /\ OrientIdle
    /\ PermIdle
    /\ TreeIdle
    /\ HeapIdle

(* G == H *)
HashEq ==
    /\ hsEq = None
    /\ hsEq' = Some(GraphEq(hsG, hsH))
    /\ UNCHANGED <<hsG, hsH, hsHashG, hsHashH>>
    /\ UNCHANGED notHashVars

(* hash(G) and hash(H): hash(self.edge_seq), the hash of a tuple of ints.  *)
(* The interpreter gives equal tuples equal hashes; which unequal tuples   *)
(* share a hash is its own matter.                                         *)
HashBoth ==
    /\ hsHashG = None
    /\ \E hg, hh \in 0..MaxHashValue :
          /\ edge_seq(hsG) = edge_seq(hsH) => hg = hh
          /\ hsHashG' = Some(hg)
          /\ hsHashH' = Some(hh)
    /\ UNCHANGED <<hsG, hsH, hsEq>>
    /\ UNCHANGED notHashVars

NextHash == HashEq \/ HashBoth

SpecHash == InitHash /\ [][NextHash]_vars

(* C28: two graphs with G == H have hash(G) == hash(H). *)
C28_EqualGraphsHaveEqualHashes ==
    (hsEq = Some(TRUE) /\ hsHashG # None) => hsHashG = hsHashH

(* What the code does keep: graphs with the same edge sequence have the    *)
(* same hash.                                                              *)
SameEdgeSeqSameHash ==
    (hsHashG # None /\ edge_seq(hsG) = edge_seq(hsH)) => hsHashG = hsHashH

(***************************************************************************)
(* The heap machine: one VertexCache, and the Graph objects that are made  *)
(* with it.  A Vertex is an object of hpHeap, and a Graph holds the        *)
(* indices of its vertices, so that two graphs can hold the same Vertex    *)
(* object and a change of the object shows in both.                        *)
(***************************************************************************)
MaxHeapEdges == 3
MaxHeapVertices == 3
MaxHeapConstructs == 1
MaxHeapGraphs == 3
MaxHeapRoseValence == 4
MaxHeapCycles == 2

(* vertex_factory(edge_seq): VertexCache.__call__ (src/rg.py:36-40) gives  *)
(* the object stored under tuple(edge_seq), making it first if there is    *)
(* none; Vertex(edge_seq) makes a new object.                              *)
VertexFactory(heap, cache, factory, key) ==
    IF factory = "VertexCache" /\ \E p \in cache : p[1] = key
    THEN [heap |-> heap, cache |-> cache, id |-> (CHOOSE p \in cache : p[1] = key)[2]]
    ELSE [heap |-> Append(heap, key),
          cache |-> IF factory = "VertexCache"
                    THEN cache \cup {<<key, Len(heap) + 1>>} ELSE cache,
          id |-> Len(heap) + 1]

(* [vertex_factory(k) for k in keys], for the first n keys. *)
RECURSIVE VertexFactoryList(_, _, _, _, _)
VertexFactoryList(heap, cache, factory, keys, n) ==
    IF n = 0 THEN [heap |-> heap, cache |-> cache, ids |-> <<>>]
    ELSE LET before == VertexFactoryList(heap, cache, factory, keys, n - 1)
             one == VertexFactory(before.heap, before.cache, factory, keys[n])
         IN  [heap |-> one.heap, cache |-> one.cache, ids |-> Append(before.ids, one.id)]

(* A contraction that rotates and extends the Vertex objects the factory   *)
(* gave it.                                                                *)
SameEndpoint(heap, id) == [heap |-> heap, id |-> id]

(* v1 = copy(new_vertices[i1]) (src/rg.py:642-643): a new object with the  *)
(* content of the old one.                                                 *)
CopyOfEndpoint(heap, id) == [heap |-> Append(heap, heap[id]), id |-> Len(heap) + 1]

(* A rose that is rotated as it is.                                        *)
SameRose(heap, id) == [heap |-> heap, id |-> id]

(* copy(rose[0]) (src/rg.py:1627). *)
CopyOfRose(heap, id) == [heap |-> Append(heap, heap[id]), id |-> Len(heap) + 1]

(* v.rotate(n) and v1.extend(v2): the object changes in place. *)
RotateVertex(heap, id, n) == [heap EXCEPT ![id] = Rotate(heap[id], n)]

ExtendVertex(heap, id1, id2) == [heap EXCEPT ![id1] = heap[id1] \o heap[id2]]

(* The Graph object as the operators on graphs take it: the vertices by    *)
(* their present content.                                                  *)
HeapView(heap, G) ==
    [vertices |-> [k \in DOMAIN G.vertices |-> heap[G.vertices[k]]],
     num_edges |-> G.num_edges,
     num_vertices |-> Len(G.vertices),
     endpoints |-> G.endpoints,
     numbering |-> G.numbering,
     bc |-> G.bc,
     nbc |-> None,
     genus |-> None]

(* The Graph object that Graph.__init__ makes of the Vertex objects ids    *)
(* and of the fields of the graph value `fields` (src/rg.py:178-276); its  *)
(* _contractions list is the list number cl.                               *)
HeapGraph(ids, factory, fields, cl) ==
    [vertices |-> ids,
     factory |-> factory,
     num_edges |-> fields.num_edges,
     endpoints |-> fields.endpoints,
     numbering |-> fields.numbering,
     bc |-> fields.bc,
     cl |-> cl]

InitHeap ==
    /\ hpHeap = <<>>
    /\ hpCache = {}
    /\ hpGraphs = <<>>
    /\ hpContractions = <<>>
    /\ hpLast = None
    /\ VertexIdle
    /\ GraphIdle
    /\ IsoIdle
    /\ EnumIdle
    /\ HomIdle
    /\ CanonIdle
    /\ CtorIdle
    /\ LabelIdle
    /\ SiblingIdle
    /\ MgnIdle
    /\ MappingIdle
    /\ OrientIdle
    /\ PermIdle
    /\ TreeIdle
    /\ HashIdle

(* Graph([factory(v) for v in vs], vertex_factory=factory): what next() of *)
(* GivenValenceGraphsIterator does with the VertexCache                    *)
(* (src/rg.py:1362-1372), and what a caller does with Vertex.              *)
HeapConstruct ==
    /\ Len(hpGraphs) < MaxHeapConstructs
    /\ \E vs \in VertexLists(MaxHeapEdges, MaxHeapVertices) :
       \E factory \in {"VertexCache", "Vertex"} :
       \E made \in {VertexFactoryList(hpHeap, hpCache, factory, vs, Len(vs))} :
          /\ hpHeap' = made.heap
          /\ hpCache' = made.cache
          /\ hpGraphs' = Append(hpGraphs,
                                HeapGraph(made.ids, factory, Graph(vs),
                                          Len(hpContractions) + 1))
          /\ hpContractions' = Append(hpContractions,
                                      [k \in 1..Graph(vs).num_edges |-> None])
    /\ hpLast' = None
    /\ UNCHANGED notHeapVars

(* The branch of contract that builds the graph (src/rg.py:621-692): the   *)
(* heap, the cache and the Vertex objects of the new graph; `cached` is    *)
(* how many objects of the heap are still held by something when Graph()   *)
(* raises and the new vertices are dropped.                                *)
ContractVertices(heap, cache, G, edgeno) ==
    LET view == HeapView(heap, G)
        ep == G.endpoints[edgeno + 1]
        i1 == IF ep[1] < ep[2] THEN ep[1] ELSE ep[2]
        i2 == IF ep[1] < ep[2] THEN ep[2] ELSE ep[1]
        pos1 == Index(view.vertices[i1 + 1], edgeno)
        pos2 == Index(view.vertices[i2 + 1], edgeno)
        keys == [k \in DOMAIN view.vertices |-> ITranslateEdges(edgeno, view.vertices[k])]
        new_vertices == VertexFactoryList(heap, cache, G.factory, keys, Len(keys))
        v1 == CopyOfEndpoint(new_vertices.heap, new_vertices.ids[i1 + 1])
        v2 == CopyOfEndpoint(v1.heap, new_vertices.ids[i2 + 1])
        h1 == IF 0 < pos1 /\ pos1 < Len(v2.heap[v1.id])
              THEN RotateVertex(v2.heap, v1.id, pos1) ELSE v2.heap
        h2 == IF 0 < pos2 /\ pos2 < Len(h1[v2.id])
              THEN RotateVertex(h1, v2.id, pos2) ELSE h1
    IN  [heap |-> ExtendVertex(h2, v1.id, v2.id),
         cache |-> new_vertices.cache,
         ids |-> RemoveAt([new_vertices.ids EXCEPT ![i1 + 1] = v1.id], i2 + 1),
         cached |-> IF G.factory = "VertexCache" THEN Len(new_vertices.heap) ELSE Len(heap)]

(* self._contractions[edgeno] = ... (src/rg.py:683). *)
StoreContraction(lists, cl, edgeno, made) ==
    [lists EXCEPT ![cl] = [@ EXCEPT ![edgeno + 1] = Some(made)]]

(* G.contract(edgeno) (src/rg.py:609-714) for the Graph object self. *)
HeapContract ==
    /\ \E self \in DOMAIN hpGraphs : \E edgeno \in 0..(hpGraphs[self].num_edges - 1) :
          LET G == hpGraphs[self]
              view == HeapView(hpHeap, G)
              memo == hpContractions[G.cl][edgeno + 1]
              call == [self |-> self, edgeno |-> edgeno, graph |-> G, before |-> view,
                       memo |-> memo, ret |-> None, err |-> "None"]
          IN  IF is_loop(view, edgeno)
              THEN /\ hpLast' = Some([call EXCEPT !.err = "AssertionError"])
                   /\ UNCHANGED <<hpHeap, hpCache, hpGraphs, hpContractions>>
              ELSE IF memo = None
              THEN /\ Len(hpGraphs) < MaxHeapGraphs
                   /\ \E new \in {ContractVertices(hpHeap, hpCache, G, edgeno)} :
                      \E fields \in {ContractedGraph(view, edgeno)} :
                         /\ hpCache' = new.cache
                         /\ IF GraphOk(fields)
                            THEN /\ hpHeap' = new.heap
                                 /\ hpGraphs' = Append(hpGraphs,
                                                       HeapGraph(new.ids, G.factory, fields,
                                                                 Len(hpContractions) + 1))
                                 /\ hpContractions' =
                                       Append(StoreContraction(hpContractions, G.cl, edgeno,
                                                               Len(hpGraphs) + 1),
                                              [k \in 1..fields.num_edges |-> None])
                                 /\ hpLast' = Some([call EXCEPT
                                                       !.ret = Some(Len(hpGraphs) + 1)])
                            ELSE /\ hpHeap' = SubSeq(new.heap, 1, new.cached)
                                 /\ hpLast' = Some([call EXCEPT !.err = "AssertionError"])
                                 /\ UNCHANGED <<hpGraphs, hpContractions>>
              ELSE IF G.numbering # None /\ hpGraphs[Val(memo)].numbering = None
              THEN LET numbering == ContractNumbering(view, edgeno)
                       made == hpGraphs[Val(memo)]
                   IN  /\ hpGraphs' = [hpGraphs EXCEPT ![Val(memo)].numbering = numbering]
                       /\ hpLast' = Some([call EXCEPT
                             !.ret = IF made.bc # None
                                        /\ Val(made.bc) = {kv[1] : kv \in Val(numbering)}
                                     THEN memo ELSE None,
                             !.err = IF made.bc = None THEN "TypeError"
                                     ELSE IF Val(made.bc) = {kv[1] : kv \in Val(numbering)}
                                     THEN "None" ELSE "AssertionError"])
                       /\ UNCHANGED <<hpHeap, hpCache, hpContractions>>
              ELSE /\ hpLast' = Some([call EXCEPT !.ret = memo])
                   /\ UNCHANGED <<hpHeap, hpCache, hpGraphs, hpContractions>>
    /\ UNCHANGED notHeapVars

(* MakeNumberedGraphs(graph) (src/rg.py:1186-1204): boundary_components()  *)
(* stores the cycles in the graph, and every numbered graph is a           *)
(* copy(graph), which holds the same vertices and _contractions list.      *)
HeapMakeNumberedGraphs ==
    /\ Len(hpGraphs) < MaxHeapGraphs
    /\ \E self \in DOMAIN hpGraphs :
          LET G == hpGraphs[self]
              view == HeapView(hpHeap, G)
          IN  /\ G.numbering = None
              /\ Cardinality(boundary_components(view)) <= MaxHeapCycles
              /\ \E bc \in ListsOf(boundary_components(view)) :
                 \E graphs \in {MakeNumberedGraphsFrom(view, bc)} :
                    /\ Len(hpGraphs) + Len(graphs) <= MaxHeapGraphs
                    /\ hpGraphs' =
                          [hpGraphs EXCEPT ![self].bc = Some(boundary_components(view))] \o
                          [k \in DOMAIN graphs |->
                              HeapGraph(G.vertices, G.factory, graphs[k], G.cl)]
    /\ hpLast' = None
    /\ UNCHANGED <<hpHeap, hpCache, hpContractions>>
    /\ UNCHANGED notHeapVars

(* One turn of pass 2 of MgnGraphsIterator.__init__ (src/rg.py:1625-1631)  *)
(* for a rose: the copy of its vertex is rotated, and a tree is grafted    *)
(* into the rotated rose, whose vertex_factory is Vertex (src/rg.py:754-   *)
(* 786).                                                                   *)
HeapRotatedRose ==
    /\ Len(hpGraphs) + 2 <= MaxHeapGraphs
    /\ \E self \in DOMAIN hpGraphs :
          LET rose == hpGraphs[self]
              max_valence == 2 * rose.num_edges
          IN  /\ Len(rose.vertices) = 1
              /\ max_valence \in 4..MaxHeapRoseValence
              /\ \E places \in 0..(max_valence - 1) :
                 \E trees \in {Trees(max_valence)} : \E t \in DOMAIN trees :
                 \E v \in {CopyOfRose(hpHeap, rose.vertices[1])} :
                 \E rotated \in {RotateVertex(v.heap, v.id, places)} :
                 \E graph \in {GraftOnRose(rotated[v.id], rose.num_edges, trees[t])} :
                 \E made \in {VertexFactoryList(rotated, hpCache, "Vertex",
                                                graph.vertices, Len(graph.vertices))} :
                    /\ hpHeap' = made.heap
                    /\ hpCache' = made.cache
                    /\ hpGraphs' = hpGraphs \o
                          <<HeapGraph(<<v.id>>, "Vertex",
                                      Graph(<<rotated[v.id]>>), Len(hpContractions) + 1),
                            HeapGraph(made.ids, "Vertex", graph, Len(hpContractions) + 2)>>
                    /\ hpContractions' = hpContractions \o
                          <<[k \in 1..rose.num_edges |-> None],
                            [k \in 1..graph.num_edges |-> None]>>
    /\ hpLast' = None
    /\ UNCHANGED notHeapVars

NextHeap ==
    \/ HeapConstruct
    \/ HeapContract
    \/ HeapMakeNumberedGraphs
    \/ HeapRotatedRose

SpecHeap == InitHeap /\ [][NextHeap]_vars

(* C30: every Vertex of the cache has the content of the key it is stored  *)
(* under: tuple(cache[k]) == k for every key k.                            *)
C30_CachedVerticesKeepTheirKeys ==
    \A p \in hpCache : hpHeap[p[2]] = p[1]

(* A cached Vertex is held by two graphs, one the contraction of the       *)
(* other, after a contraction that had to rotate an endpoint.              *)
C30_Witness ==
    /\ hpLast # None
    /\ Val(hpLast).ret # None
    /\ Val(hpLast).memo = None
    /\ \E p \in hpCache :
          /\ p[2] \in Range(Val(hpLast).graph.vertices)
          /\ p[2] \in Range(hpGraphs[Val(Val(hpLast).ret)].vertices)
    /\ \E k \in DOMAIN hpGraphs[Val(Val(hpLast).ret)].vertices :
          hpGraphs[Val(Val(hpLast).ret)].vertices[k] \notin {p[2] : p \in hpCache}

(* C21: G.contract(e) leaves the vertices, the endpoints, the numbering    *)
(* and the boundary cycles of G as they were; the graph it returns is not  *)
(* G, is the one that G's contraction cache holds for e after the call,    *)
(* and is the one the cache held before, when it held one.                 *)
C21_ContractLeavesTheGraphAlone ==
    hpLast # None =>
        LET call == Val(hpLast)
            G == hpGraphs[call.self]
        IN  /\ G = call.graph
            /\ HeapView(hpHeap, G) = call.before
            /\ call.ret # None =>
                  /\ Val(call.ret) # call.self
                  /\ hpContractions[G.cl][call.edgeno + 1] = call.ret
                  /\ call.memo # None => call.ret = call.memo

(* The heap and the graph values agree: the vertices of the graph that    *)
(* contract has built are, by their content, those of ContractedGraph.     *)
ContractedVerticesOnHeap ==
    (hpLast # None /\ Val(hpLast).memo = None /\ Val(hpLast).ret # None) =>
        HeapView(hpHeap, hpGraphs[Val(Val(hpLast).ret)]).vertices =
            ContractedGraph(Val(hpLast).before, Val(hpLast).edgeno).vertices

(* contract had to join a Vertex object that G holds too: the key of an    *)
(* endpoint, once the edge is taken out, is the key of a vertex of G.      *)
C21_Witness ==
    /\ hpLast # None
    /\ Val(hpLast).ret # None
    /\ Val(hpLast).memo = None
    /\ Val(hpLast).graph.factory = "VertexCache"
    /\ \E k \in DOMAIN Val(hpLast).before.vertices :
          Val(hpLast).before.vertices[k] =
             ITranslateEdges(Val(hpLast).edgeno,
                             Val(hpLast).before.vertices[Val(hpLast).before.endpoints[Val(hpLast).edgeno + 1][1] + 1])

====
